---- MODULE Spec2Model ----
(***************************************************************************)
(* OpenViking: the API-key and tenant manager (openviking/server/          *)
(* api_keys.py), the admin and register routers, the tenant filter of the  *)
(* context semantic gateway, and the tenant-scoped filesystem (VikingFS).  *)
(*                                                                         *)
(* Exceptions are modelled as the value of resp.result: an operation that  *)
(* raises leaves resp.result set to the exception's name and changes only  *)
(* what the code changed before the raise.                                 *)
(***************************************************************************)
EXTENDS Integers, Sequences, FiniteSets, TLC

VARIABLES
    accounts,           \* APIKeyManager._accounts: account_id -> (user_id -> [role, key])
    user_keys,          \* APIKeyManager._user_keys: key -> [account_id, user_id, role]
    invitation_tokens,  \* APIKeyManager._invitation_tokens: token_id -> token info
    accounts_json,      \* /local/_system/accounts.json: {} (absent) or {set of account ids}
    users_json,         \* /local/<account>/_system/users.json: account_id -> users
    tokens_json,        \* /local/_system/invitation_tokens.json: {} or {tokens}
    keysIssued,         \* number of secrets.token_hex(32) keys drawn so far
    tokensIssued,       \* number of invitation token ids drawn so far
    registered,         \* history: token_id -> accounts successfully created with it
    now,                \* the wall clock datetime.now(timezone.utc)
    fs,                 \* AGFS user data: backend path -> account of the last writer ("root" for ROOT)
    fsResp,             \* outcome of the last VikingFS operation
    vec,                \* context collection: account_id -> number of vector records
    call,               \* the arguments of a pure function under check
    ret,                \* the value the function returned
    resp,               \* outcome of the last key-manager or admin operation
    collector,          \* a RequestTraceCollector: its events, counters, gauges and lock
    workers,            \* the threads or tasks in flight: each one's position and locals
    made,               \* history: the calls made so far and what each returned
    context,            \* the context variable _TRACE_COLLECTOR as each task sees it
    recorder            \* an IORecorder: its record file and its file lock

vars == <<accounts, user_keys, invitation_tokens, accounts_json, users_json,
          tokens_json, keysIssued, tokensIssued, registered, now, fs, fsResp,
          vec, call, ret, resp, collector, workers, made, context, recorder>>

(* Tracing and recording, which the key manager and the storage layer of   *)
(* this model never touch.                                                 *)
obsVars == <<collector, workers, made, context, recorder>>

mgrVars == <<accounts, user_keys, invitation_tokens, accounts_json, users_json,
             tokens_json, keysIssued, tokensIssued, registered>>

(* What the key manager never touches. *)
restVars == <<fs, fsResp, vec, call, ret, obsVars>>

-----------------------------------------------------------------------------
(* Bounds of the model *)

MaxKeys == 2
MaxTokens == 1
MaxTime == 1
MaxUses == 2

AccountIds == {"default", "acme"}
UserIds == {"alice", "bob"}
RoleStrings == {"admin", "user", "bogus"}
ValidRoles == {"root", "admin", "user"}

(* The empty string, which Python treats as false (if not api_key). *)
EmptyKey == 0
(* The configured root key, APIKeyManager._root_key. *)
RootKey == 1

(* Keys a request may present: empty, root, every key secrets.token_hex can *)
(* have produced, and one key that was never issued.                        *)
PresentedKeys == 0 .. (RootKey + MaxKeys + 1)

-----------------------------------------------------------------------------
(* Python dict helpers *)

Put(f, k, v) == [x \in (DOMAIN f) \cup {k} |-> IF x = k THEN v ELSE f[x]]
Drop(f, k) == [x \in (DOMAIN f) \ {k} |-> f[x]]
DropAll(f, ks) == [x \in (DOMAIN f) \ ks |-> f[x]]
EmptyDict == [x \in {} |-> {}]

NoResp == [op |-> "none", result |-> "none", account |-> "", user |-> "",
           role |-> "", key |-> EmptyKey, token |-> 0]

NoCtx == [account |-> "", user |-> "", agent |-> "", role |-> ""]

NoFsResp == [op |-> "none", ctx |-> NoCtx, uri |-> << >>, path |-> << >>,
             result |-> "none", denied_by |-> "", seen |-> {}]

NoCall == [fn |-> "none"]

Resp(op, result, account, user, role, key, token) ==
    [op |-> op, result |-> result, account |-> account, user |-> user,
     role |-> role, key |-> key, token |-> token]

-----------------------------------------------------------------------------
(* secrets.token_hex(32): the n-th key drawn.  Draws are modelled as never *)
(* repeating and never equal to the root key.                              *)
NewKey == RootKey + keysIssued + 1

(* f"inv_{secrets.token_hex(16)}" *)
NewToken == tokensIssued + 1

-----------------------------------------------------------------------------
(* APIKeyManager.resolve *)

ResolveNoFinalRaise(index, api_key) ==
    IF api_key = EmptyKey
    THEN [result |-> "Unauthenticated", role |-> "", account |-> "", user |-> ""]
    ELSE IF api_key \in DOMAIN index
    THEN [result |-> "ok", role |-> index[api_key].role,
          account |-> index[api_key].account_id, user |-> index[api_key].user_id]
    ELSE [result |-> "ok", role |-> "root", account |-> "", user |-> ""]

(* resolve against a given key index (self._user_keys) *)
ResolveIn(index, api_key) ==
    IF api_key = EmptyKey
    THEN [result |-> "Unauthenticated", role |-> "", account |-> "", user |-> ""]
    ELSE IF api_key = RootKey
    THEN [result |-> "ok", role |-> "root", account |-> "", user |-> ""]
    ELSE IF api_key \in DOMAIN index
    THEN [result |-> "ok", role |-> index[api_key].role,
          account |-> index[api_key].account_id, user |-> index[api_key].user_id]
    ELSE [result |-> "Unauthenticated", role |-> "", account |-> "", user |-> ""]

Resolve(api_key) == ResolveIn(user_keys, api_key)

ResolveReq(api_key) ==
    /\ resp' = LET r == Resolve(api_key)
               IN Resp("resolve", r.result, r.account, r.user, r.role, api_key, 0)
    /\ UNCHANGED <<mgrVars, now, restVars>>

-----------------------------------------------------------------------------
(* APIKeyManager._save_accounts_json / _save_users_json / _save_invitation_tokens *)

SaveAccountsJson(accts) == {DOMAIN accts}

SaveUsersJson(accts, account_id) ==
    IF account_id \in DOMAIN accts
    THEN Put(users_json, account_id, accts[account_id])
    ELSE users_json

SaveInvitationTokens(tokens) == {tokens}

-----------------------------------------------------------------------------
(* APIKeyManager.create_account *)

(* The part of create_account after the existence check (lines 130-145). *)
DoCreateAccount(account_id, admin_user_id) ==
    LET key == NewKey
        accts == Put(accounts, account_id,
                     Put(EmptyDict, admin_user_id, [role |-> "admin", key |-> key]))
    IN /\ keysIssued < MaxKeys
       /\ keysIssued' = keysIssued + 1
       /\ accounts' = accts
       /\ user_keys' = Put(user_keys, key,
                           [account_id |-> account_id, user_id |-> admin_user_id,
                            role |-> "admin"])
       /\ accounts_json' = SaveAccountsJson(accts)
       /\ users_json' = SaveUsersJson(accts, account_id)

CreateAccountNoExistsCheck(account_id, admin_user_id) ==
    /\ DoCreateAccount(account_id, admin_user_id)
    /\ resp' = Resp("create_account", "ok", account_id, admin_user_id, "admin", NewKey, 0)
    /\ UNCHANGED <<invitation_tokens, tokens_json, tokensIssued, registered, now, restVars>>

CreateAccount(account_id, admin_user_id) ==
    IF account_id \in DOMAIN accounts
    THEN /\ resp' = Resp("create_account", "AlreadyExists", account_id, "", "", EmptyKey, 0)
         /\ UNCHANGED <<mgrVars, now, restVars>>
    ELSE /\ DoCreateAccount(account_id, admin_user_id)
         /\ resp' = Resp("create_account", "ok", account_id, admin_user_id, "admin",
                         NewKey, 0)
         /\ UNCHANGED <<invitation_tokens, tokens_json, tokensIssued, registered,
                        now, restVars>>

-----------------------------------------------------------------------------
(* APIKeyManager.delete_account *)

(* The keys of an account's users: user_info.get("key", "") for each user. *)
AccountKeys(account_id) ==
    {accounts[account_id][u].key : u \in DOMAIN accounts[account_id]}

DeleteAccountKeepKeys(account_id) ==
    IF account_id \notin DOMAIN accounts
    THEN /\ resp' = Resp("delete_account", "NotFound", account_id, "", "", EmptyKey, 0)
         /\ UNCHANGED <<mgrVars, now, restVars>>
    ELSE /\ accounts' = Drop(accounts, account_id)
         /\ accounts_json' = SaveAccountsJson(Drop(accounts, account_id))
         /\ resp' = Resp("delete_account", "ok", account_id, "", "", EmptyKey, 0)
         /\ UNCHANGED <<user_keys, users_json, invitation_tokens, tokens_json, keysIssued,
                        tokensIssued, registered, now, restVars>>

DeleteAccount(account_id) ==
    IF account_id \notin DOMAIN accounts
    THEN /\ resp' = Resp("delete_account", "NotFound", account_id, "", "", EmptyKey, 0)
         /\ UNCHANGED <<mgrVars, now, restVars>>
    ELSE /\ accounts' = Drop(accounts, account_id)
         /\ user_keys' = DropAll(user_keys, AccountKeys(account_id))
         /\ accounts_json' = SaveAccountsJson(Drop(accounts, account_id))
         /\ resp' = Resp("delete_account", "ok", account_id, "", "", EmptyKey, 0)
         /\ UNCHANGED <<users_json, invitation_tokens, tokens_json, keysIssued,
                        tokensIssued, registered, now, restVars>>

-----------------------------------------------------------------------------
(* APIKeyManager.register_user.  Role(role) raises ValueError for a string *)
(* that is no Role, after account.users was assigned (line 171) and before *)
(* the index and the users file are written.                               *)

RegisterUser(account_id, user_id, role) ==
    IF account_id \notin DOMAIN accounts
    THEN /\ resp' = Resp("register_user", "NotFound", account_id, "", "", EmptyKey, 0)
         /\ UNCHANGED <<mgrVars, now, restVars>>
    ELSE IF user_id \in DOMAIN accounts[account_id]
    THEN /\ resp' = Resp("register_user", "AlreadyExists", account_id, "", "", EmptyKey, 0)
         /\ UNCHANGED <<mgrVars, now, restVars>>
    ELSE LET key == NewKey
             accts == [accounts EXCEPT ![account_id] =
                          Put(@, user_id, [role |-> role, key |-> key])]
         IN /\ keysIssued < MaxKeys
            /\ keysIssued' = keysIssued + 1
            /\ accounts' = accts
            /\ IF role \in ValidRoles
               THEN /\ user_keys' = Put(user_keys, key,
                                        [account_id |-> account_id, user_id |-> user_id,
                                         role |-> role])
                    /\ users_json' = SaveUsersJson(accts, account_id)
                    /\ resp' = Resp("register_user", "ok", account_id, user_id, role, key, 0)
               ELSE /\ resp' = Resp("register_user", "ValueError", account_id, user_id,
                                    role, EmptyKey, 0)
                    /\ UNCHANGED <<user_keys, users_json>>
            /\ UNCHANGED <<accounts_json, invitation_tokens, tokens_json, tokensIssued,
                           registered, now, restVars>>

-----------------------------------------------------------------------------
(* APIKeyManager.remove_user *)

RemoveUser(account_id, user_id) ==
    IF account_id \notin DOMAIN accounts
    THEN /\ resp' = Resp("remove_user", "NotFound", account_id, "", "", EmptyKey, 0)
         /\ UNCHANGED <<mgrVars, now, restVars>>
    ELSE IF user_id \notin DOMAIN accounts[account_id]
    THEN /\ resp' = Resp("remove_user", "NotFound", account_id, "", "", EmptyKey, 0)
         /\ UNCHANGED <<mgrVars, now, restVars>>
    ELSE LET key == accounts[account_id][user_id].key
             accts == [accounts EXCEPT ![account_id] = Drop(@, user_id)]
         IN /\ accounts' = accts
            /\ user_keys' = Drop(user_keys, key)
            /\ users_json' = SaveUsersJson(accts, account_id)
            /\ resp' = Resp("remove_user", "ok", account_id, user_id, "", EmptyKey, 0)
            /\ UNCHANGED <<accounts_json, invitation_tokens, tokens_json, keysIssued,
                           tokensIssued, registered, now, restVars>>

-----------------------------------------------------------------------------
(* APIKeyManager.regenerate_key.  Role(account.users[user_id]["role"])      *)
(* raises ValueError for a stored role that is no Role, after the old key  *)
(* was popped (line 204) and the new key stored in account.users (207).    *)

RegenerateKeyKeepOld(account_id, user_id) ==
    IF account_id \notin DOMAIN accounts
    THEN /\ resp' = Resp("regenerate_key", "NotFound", account_id, "", "", EmptyKey, 0)
         /\ UNCHANGED <<mgrVars, now, restVars>>
    ELSE IF user_id \notin DOMAIN accounts[account_id]
    THEN /\ resp' = Resp("regenerate_key", "NotFound", account_id, "", "", EmptyKey, 0)
         /\ UNCHANGED <<mgrVars, now, restVars>>
    ELSE LET role == accounts[account_id][user_id].role
             new_key == NewKey
             accts == [accounts EXCEPT ![account_id][user_id].key = new_key]
         IN /\ keysIssued < MaxKeys
            /\ keysIssued' = keysIssued + 1
            /\ accounts' = accts
            /\ IF role \in ValidRoles
               THEN /\ user_keys' = Put(user_keys, new_key,
                                        [account_id |-> account_id, user_id |-> user_id,
                                         role |-> role])
                    /\ users_json' = SaveUsersJson(accts, account_id)
                    /\ resp' = Resp("regenerate_key", "ok", account_id, user_id, role,
                                    new_key, 0)
               ELSE /\ UNCHANGED user_keys
                    /\ resp' = Resp("regenerate_key", "ValueError", account_id, user_id,
                                    role, EmptyKey, 0)
                    /\ UNCHANGED users_json
            /\ UNCHANGED <<accounts_json, invitation_tokens, tokens_json, tokensIssued,
                           registered, now, restVars>>

RegenerateKey(account_id, user_id) ==
    IF account_id \notin DOMAIN accounts
    THEN /\ resp' = Resp("regenerate_key", "NotFound", account_id, "", "", EmptyKey, 0)
         /\ UNCHANGED <<mgrVars, now, restVars>>
    ELSE IF user_id \notin DOMAIN accounts[account_id]
    THEN /\ resp' = Resp("regenerate_key", "NotFound", account_id, "", "", EmptyKey, 0)
         /\ UNCHANGED <<mgrVars, now, restVars>>
    ELSE LET old_key == accounts[account_id][user_id].key
             role == accounts[account_id][user_id].role
             new_key == NewKey
             accts == [accounts EXCEPT ![account_id][user_id].key = new_key]
         IN /\ keysIssued < MaxKeys
            /\ keysIssued' = keysIssued + 1
            /\ accounts' = accts
            /\ IF role \in ValidRoles
               THEN /\ user_keys' = Put(Drop(user_keys, old_key), new_key,
                                        [account_id |-> account_id, user_id |-> user_id,
                                         role |-> role])
                    /\ users_json' = SaveUsersJson(accts, account_id)
                    /\ resp' = Resp("regenerate_key", "ok", account_id, user_id, role,
                                    new_key, 0)
               ELSE /\ user_keys' = Drop(user_keys, old_key)
                    /\ resp' = Resp("regenerate_key", "ValueError", account_id, user_id,
                                    role, EmptyKey, 0)
                    /\ UNCHANGED users_json
            /\ UNCHANGED <<accounts_json, invitation_tokens, tokens_json, tokensIssued,
                           registered, now, restVars>>

-----------------------------------------------------------------------------
(* APIKeyManager.set_role.  Role(role) is evaluated only when the user's   *)
(* key is in the index (line 228), after account.users was assigned (225). *)

SetRole(account_id, user_id, role) ==
    IF account_id \notin DOMAIN accounts
    THEN /\ resp' = Resp("set_role", "NotFound", account_id, "", "", EmptyKey, 0)
         /\ UNCHANGED <<mgrVars, now, restVars>>
    ELSE IF user_id \notin DOMAIN accounts[account_id]
    THEN /\ resp' = Resp("set_role", "NotFound", account_id, "", "", EmptyKey, 0)
         /\ UNCHANGED <<mgrVars, now, restVars>>
    ELSE LET key == accounts[account_id][user_id].key
             accts == [accounts EXCEPT ![account_id][user_id].role = role]
         IN /\ accounts' = accts
            /\ IF key \in DOMAIN user_keys /\ role \notin ValidRoles
               THEN /\ resp' = Resp("set_role", "ValueError", account_id, user_id, role,
                                    EmptyKey, 0)
                    /\ UNCHANGED <<user_keys, users_json>>
               ELSE /\ user_keys' = IF key \in DOMAIN user_keys
                                    THEN [user_keys EXCEPT ![key] =
                                            [account_id |-> account_id,
                                             user_id |-> user_id, role |-> role]]
                                    ELSE user_keys
                    /\ users_json' = SaveUsersJson(accts, account_id)
                    /\ resp' = Resp("set_role", "ok", account_id, user_id, role, EmptyKey, 0)
            /\ UNCHANGED <<accounts_json, invitation_tokens, tokens_json, keysIssued,
                           tokensIssued, registered, now, restVars>>

-----------------------------------------------------------------------------
(* Invitation tokens.  An Optional value is a set with at most one element: *)
(* {} is None.                                                              *)

OptUses == {{}} \cup {{n} : n \in 0 .. MaxUses}
OptTimes == {{}} \cup {{t} : t \in 0 .. MaxTime}
PresentedTokens == 1 .. (MaxTokens + 1)

(* APIKeyManager.create_invitation_token *)
CreateInvitationToken(max_uses, expires_at) ==
    LET token_id == NewToken
        tokens == Put(invitation_tokens, token_id,
                      [max_uses |-> max_uses, used_count |-> 0,
                       expires_at |-> expires_at])
    IN /\ tokensIssued < MaxTokens
       /\ tokensIssued' = tokensIssued + 1
       /\ invitation_tokens' = tokens
       /\ tokens_json' = SaveInvitationTokens(tokens)
       /\ registered' = Put(registered, token_id, 0)
       /\ resp' = Resp("create_invitation_token", "ok", "", "", "", EmptyKey, token_id)
       /\ UNCHANGED <<accounts, user_keys, accounts_json, users_json, keysIssued,
                      now, restVars>>

(* APIKeyManager.revoke_invitation_token *)
RevokeInvitationToken(token_id) ==
    IF token_id \notin DOMAIN invitation_tokens
    THEN /\ resp' = Resp("revoke_invitation_token", "NotFound", "", "", "", EmptyKey,
                         token_id)
         /\ UNCHANGED <<mgrVars, now, restVars>>
    ELSE /\ invitation_tokens' = Drop(invitation_tokens, token_id)
         /\ tokens_json' = SaveInvitationTokens(Drop(invitation_tokens, token_id))
         /\ resp' = Resp("revoke_invitation_token", "ok", "", "", "", EmptyKey, token_id)
         /\ UNCHANGED <<accounts, user_keys, accounts_json, users_json, keysIssued,
                        tokensIssued, registered, now, restVars>>

(* datetime.now(timezone.utc) > expires, when expires_at is set (lines 336-339) *)
Expired(token_info) ==
    \E e \in token_info.expires_at : now > e

UsedUpOffByOne(token_info) ==
    \E m \in token_info.max_uses : token_info.used_count > m

(* used_count >= max_uses, when max_uses is not None (lines 342-344) *)
UsedUp(token_info) ==
    \E m \in token_info.max_uses : token_info.used_count >= m

(* The outcome of create_account_with_token in the current state. *)
TokenOutcome(token, account_id) ==
    IF token \notin DOMAIN invitation_tokens THEN "InvalidArgument: invalid token"
    ELSE IF Expired(invitation_tokens[token]) THEN "InvalidArgument: expired"
    ELSE IF UsedUp(invitation_tokens[token]) THEN "InvalidArgument: maximum uses"
    ELSE IF account_id \in DOMAIN accounts THEN "AlreadyExists"
    ELSE "ok"

CreateAccountWithTokenCountFirst(token, account_id, admin_user_id) ==
    LET outcome == TokenOutcome(token, account_id)
        tokens == [invitation_tokens EXCEPT ![token].used_count = @ + 1]
    IN IF outcome \in {"InvalidArgument: invalid token", "InvalidArgument: expired",
                       "InvalidArgument: maximum uses"}
       THEN /\ resp' = Resp("create_account_with_token", outcome, account_id,
                            "", "", EmptyKey, token)
            /\ UNCHANGED <<mgrVars, now, restVars>>
       ELSE IF outcome = "AlreadyExists"
       THEN /\ invitation_tokens' = tokens
            /\ tokens_json' = SaveInvitationTokens(tokens)
            /\ resp' = Resp("create_account_with_token", outcome, account_id,
                            "", "", EmptyKey, token)
            /\ UNCHANGED <<accounts, user_keys, accounts_json, users_json, keysIssued,
                           tokensIssued, registered, now, restVars>>
       ELSE /\ DoCreateAccount(account_id, admin_user_id)
            /\ invitation_tokens' = tokens
            /\ tokens_json' = SaveInvitationTokens(tokens)
            /\ registered' = [registered EXCEPT ![token] = @ + 1]
            /\ resp' = Resp("create_account_with_token", "ok", account_id,
                            admin_user_id, "admin", NewKey, token)
            /\ UNCHANGED <<tokensIssued, now, restVars>>

(* APIKeyManager.create_account_with_token; register_account (the router)  *)
(* passes the request body through and returns its result.                 *)
CreateAccountWithToken(token, account_id, admin_user_id) ==
    LET outcome == TokenOutcome(token, account_id)
    IN IF outcome # "ok"
       THEN /\ resp' = Resp("create_account_with_token", outcome, account_id,
                            "", "", EmptyKey, token)
            /\ UNCHANGED <<mgrVars, now, restVars>>
       ELSE LET tokens == [invitation_tokens EXCEPT ![token].used_count = @ + 1]
            IN /\ DoCreateAccount(account_id, admin_user_id)
               /\ invitation_tokens' = tokens
               /\ tokens_json' = SaveInvitationTokens(tokens)
               /\ registered' = [registered EXCEPT ![token] = @ + 1]
               /\ resp' = Resp("create_account_with_token", "ok", account_id,
                               admin_user_id, "admin", NewKey, token)
               /\ UNCHANGED <<tokensIssued, now, restVars>>

-----------------------------------------------------------------------------
(* Time passes. *)
Tick ==
    /\ now < MaxTime
    /\ now' = now + 1
    /\ resp' = Resp("tick", "ok", "", "", "", EmptyKey, 0)
    /\ UNCHANGED <<mgrVars, restVars>>

-----------------------------------------------------------------------------
(* The state after APIKeyManager.__init__ and load() on an empty storage:  *)
(* load() creates the account "default" with no users (lines 67-71).       *)

InitManager ==
    /\ accounts = [a \in {"default"} |-> EmptyDict]
    /\ user_keys = EmptyDict
    /\ invitation_tokens = EmptyDict
    /\ accounts_json = {{"default"}}
    /\ users_json = EmptyDict
    /\ tokens_json = {}
    /\ keysIssued = 0
    /\ tokensIssued = 0
    /\ registered = EmptyDict
    /\ now = 0
    /\ resp = NoResp

(* No request is traced and nothing is recorded. *)
InitIdle ==
    /\ collector = << >>
    /\ workers = << >>
    /\ made = << >>
    /\ context = << >>
    /\ recorder = << >>

(* An empty storage: no user data, no vector records. *)
InitStorage ==
    /\ fs = EmptyDict
    /\ fsResp = NoFsResp
    /\ vec = [a \in AccountIds |-> 0]
    /\ InitIdle

Init ==
    /\ InitManager
    /\ InitStorage
    /\ call = NoCall
    /\ ret = NoCall

(* The key manager's account and user operations. *)
Next ==
    \/ \E k \in PresentedKeys : ResolveReq(k)
    \/ \E a \in AccountIds, u \in UserIds : CreateAccount(a, u)
    \/ \E a \in AccountIds : DeleteAccount(a)
    \/ \E a \in AccountIds, u \in UserIds, r \in RoleStrings : RegisterUser(a, u, r)
    \/ \E a \in AccountIds, u \in UserIds : RemoveUser(a, u)
    \/ \E a \in AccountIds, u \in UserIds : RegenerateKey(a, u)
    \/ \E a \in AccountIds, u \in UserIds, r \in RoleStrings : SetRole(a, u, r)

Spec == Init /\ [][Next]_vars

(* The invitation-token flow: tokens are created, used to register accounts, *)
(* revoked, and expire as time passes; accounts are deleted by ROOT.         *)
NextTokens ==
    \/ \E m \in OptUses, e \in OptTimes : CreateInvitationToken(m, e)
    \/ \E t \in PresentedTokens : RevokeInvitationToken(t)
    \/ \E t \in PresentedTokens, a \in AccountIds :
          CreateAccountWithToken(t, a, "alice")
    \/ \E a \in AccountIds : DeleteAccount(a)
    \/ Tick

SpecTokens == Init /\ [][NextTokens]_vars

-----------------------------------------------------------------------------
(* Properties of the key manager *)

Unauthenticated == [result |-> "Unauthenticated", role |-> "", account |-> "", user |-> ""]
RootIdentity == [result |-> "ok", role |-> "root", account |-> "", user |-> ""]

(* The ordered match the resolver is specified to be: root key, then index, *)
(* then Unauthenticated.                                                    *)
OrderedMatch(k) ==
    IF k = RootKey THEN RootIdentity
    ELSE IF k \in DOMAIN user_keys
    THEN [result |-> "ok", role |-> user_keys[k].role,
          account |-> user_keys[k].account_id, user |-> user_keys[k].user_id]
    ELSE Unauthenticated

C7_CreateAccount ==
    [][resp'.op = "create_account" =>
         /\ (resp'.result = "AlreadyExists") <=> (resp'.account \in DOMAIN accounts)
         /\ resp'.result = "ok" =>
               /\ resp'.key \notin (DOMAIN user_keys) \cup {RootKey, EmptyKey}
               /\ ResolveIn(user_keys', resp'.key) = [result |-> "ok", role |-> "admin",
                                         account |-> resp'.account,
                                         user |-> resp'.user]
               /\ \A k \in DOMAIN user_keys : ResolveIn(user_keys', k) = Resolve(k)
         /\ resp'.result = "AlreadyExists" =>
               /\ UNCHANGED <<accounts, user_keys, accounts_json, users_json>>
               /\ \A k \in PresentedKeys : ResolveIn(user_keys', k) = Resolve(k)
      ]_vars

(* create_account was refused for an account whose admin key still resolves. *)
C7_Witness ==
    /\ resp.op = "create_account"
    /\ resp.result = "AlreadyExists"
    /\ \E k \in DOMAIN user_keys :
          /\ user_keys[k].account_id = resp.account
          /\ Resolve(k).role = "admin"

(* C8 as stated: after delete_account(a) completes, every key of a user of *)
(* a is Unauthenticated, a is not among the accounts, and the persisted    *)
(* user registry of a does not exist.                                      *)
C8_DeleteAccountClaim ==
    [][(resp'.op = "delete_account" /\ resp'.result = "ok") =>
         /\ \A k \in AccountKeys(resp'.account) : ResolveIn(user_keys', k) = Unauthenticated
         /\ resp'.account \notin DOMAIN accounts'
         /\ \A listed \in accounts_json' : resp'.account \notin listed
         /\ resp'.account \notin DOMAIN users_json'
      ]_vars

(* C5: the used_count of a token never decreases, equals the number of     *)
(* accounts created with the token, and never exceeds max_uses when that   *)
(* is set; a registration succeeds only below the cap and adds one; at the *)
(* cap an unexpired token is refused with "maximum uses".                  *)
C5_UsedCount ==
    /\ [](\A t \in DOMAIN invitation_tokens :
            /\ invitation_tokens[t].used_count = registered[t]
            /\ \A m \in invitation_tokens[t].max_uses :
                  invitation_tokens[t].used_count <= m)
    /\ [][/\ \A t \in (DOMAIN invitation_tokens) \cap (DOMAIN invitation_tokens') :
                invitation_tokens'[t].used_count >= invitation_tokens[t].used_count
          /\ \A t \in DOMAIN registered : registered'[t] >= registered[t]
          /\ (DOMAIN invitation_tokens') \ (DOMAIN invitation_tokens)
                \subseteq {t \in 1 .. MaxTokens : t \notin DOMAIN registered}
          /\ resp'.op = "create_account_with_token" =>
               /\ resp'.result = "ok" =>
                    /\ \A m \in invitation_tokens[resp'.token].max_uses :
                          invitation_tokens[resp'.token].used_count < m
                    /\ invitation_tokens'[resp'.token].used_count
                          = invitation_tokens[resp'.token].used_count + 1
                    /\ resp'.account \in (DOMAIN accounts') \ (DOMAIN accounts)
               /\ (/\ resp'.token \in DOMAIN invitation_tokens
                   /\ ~ Expired(invitation_tokens[resp'.token])
                   /\ \E m \in invitation_tokens[resp'.token].max_uses :
                         invitation_tokens[resp'.token].used_count >= m)
                  => resp'.result = "InvalidArgument: maximum uses"
         ]_vars

(* A token with max_uses = 2 was used twice and then refused. *)
C5_Witness ==
    /\ resp.op = "create_account_with_token"
    /\ resp.result = "InvalidArgument: maximum uses"
    /\ resp.token \in DOMAIN invitation_tokens
    /\ invitation_tokens[resp.token].max_uses = {2}
    /\ invitation_tokens[resp.token].used_count = 2
    /\ registered[resp.token] = 2

(* C6: create_account_with_token checks token existence, then expiry, then *)
(* the usage cap, and only then create_account; whenever it fails nothing  *)
(* of the manager changes: no account, no key, no used_count increment.    *)
C6_TokenCheckOrder ==
    [][resp'.op = "create_account_with_token" =>
         LET t == resp'.token
             known == t \in DOMAIN invitation_tokens
             expired == known /\ \E e \in invitation_tokens[t].expires_at : now > e
             capped == known /\ \E m \in invitation_tokens[t].max_uses :
                                    invitation_tokens[t].used_count >= m
             exists == resp'.account \in DOMAIN accounts
         IN /\ ~ known => resp'.result = "InvalidArgument: invalid token"
            /\ expired => resp'.result = "InvalidArgument: expired"
            /\ (~ expired /\ capped) => resp'.result = "InvalidArgument: maximum uses"
            /\ (known /\ ~ expired /\ ~ capped /\ exists) => resp'.result = "AlreadyExists"
            /\ (known /\ ~ expired /\ ~ capped /\ ~ exists) => resp'.result = "ok"
            /\ resp'.result # "ok" =>
                  UNCHANGED <<accounts, user_keys, invitation_tokens, registered,
                              accounts_json, users_json, tokens_json>>
      ]_vars

(* A valid, unexpired token below its cap was presented for an account that *)
(* already exists: create_account raised and the token was not consumed.    *)
C6_Witness ==
    /\ resp.op = "create_account_with_token"
    /\ resp.result = "AlreadyExists"
    /\ resp.token \in DOMAIN invitation_tokens
    /\ invitation_tokens[resp.token].used_count = registered[resp.token]
    /\ invitation_tokens[resp.token].max_uses # {}

-----------------------------------------------------------------------------
(* Identity: UserIdentifier(account_id, user_id, agent_id) and its space   *)
(* names.  H is a stable digest of user_id (and agent_id); it is modelled  *)
(* as an injective table that does not read account_id.                    *)

AgentIds == {"agent1", "agent2"}

UserSpaceName(user_id) ==
    CASE user_id = "alice" -> "us_alice"
      [] user_id = "bob" -> "us_bob"
      [] OTHER -> "us_other"

AgentSpaceName(user_id, agent_id) ==
    CASE user_id = "alice" /\ agent_id = "agent1" -> "as_alice_agent1"
      [] user_id = "alice" /\ agent_id = "agent2" -> "as_alice_agent2"
      [] user_id = "bob" /\ agent_id = "agent1" -> "as_bob_agent1"
      [] user_id = "bob" /\ agent_id = "agent2" -> "as_bob_agent2"
      [] OTHER -> "as_other"

Ctx(account, user, agent, role) ==
    [account |-> account, user |-> user, agent |-> agent, role |-> role]

-----------------------------------------------------------------------------
(* The filter DSL of the context semantic gateway: None, a "must" on one   *)
(* field, or an "and" of conditions.                                       *)

NoFilter == [op |-> "none", field |-> "", conds |-> << >>]
Must(field, conds) == [op |-> "must", field |-> field, conds |-> conds]
AndOf(conds) == [op |-> "and", field |-> "", conds |-> conds]

(* context_type arguments: "" stands for None (both are false in Python). *)
ContextTypes == {"", "resource", "memory", "skill"}

(* The variant that adds the shared space "" for every context type. *)
TenantFilterAlwaysShared(ctx, context_type) ==
    IF ctx.role = "root" THEN NoFilter
    ELSE AndOf(<<Must("account_id", <<ctx.account>>),
                 Must("owner_space",
                      <<UserSpaceName(ctx.user), AgentSpaceName(ctx.user, ctx.agent),
                        "">>)>>)

(* ContextSemanticSearchGateway._tenant_filter *)
TenantFilter(ctx, context_type) ==
    IF ctx.role = "root" THEN NoFilter
    ELSE LET owner_spaces ==
                 <<UserSpaceName(ctx.user), AgentSpaceName(ctx.user, ctx.agent)>>
                 \o (IF context_type = "resource" THEN <<"">> ELSE << >>)
         IN AndOf(<<Must("account_id", <<ctx.account>>),
                    Must("owner_space", owner_spaces)>>)

FilterCalls ==
    {[fn |-> "tenant_filter", ctx |-> Ctx(a, u, g, r), context_type |-> t] :
        a \in AccountIds, u \in UserIds, g \in AgentIds, r \in ValidRoles,
        t \in ContextTypes}

Pending == [fn |-> "pending"]

ApplyTenantFilter ==
    /\ call.fn = "tenant_filter"
    /\ ret = Pending
    /\ ret' = TenantFilter(call.ctx, call.context_type)
    /\ UNCHANGED <<mgrVars, now, fs, fsResp, vec, call, resp, obsVars>>

InitFilter ==
    /\ InitManager
    /\ InitStorage
    /\ call \in FilterCalls
    /\ ret = Pending

NextFilter == ApplyTenantFilter

SpecFilter == InitFilter /\ [][NextFilter]_vars

(* C3 as stated: the tenant filter is empty for ROOT, the single condition *)
(* account_id = ctx.account_id for ADMIN, and for USER the conjunction of  *)
(* account_id = ctx.account_id and owner_space in [user space, agent       *)
(* space, ""], in that order.                                              *)
C3_TenantFilterClaim ==
    (call.fn = "tenant_filter" /\ ret # Pending) =>
        CASE call.ctx.role = "root" -> ret = NoFilter
          [] call.ctx.role = "admin" ->
                /\ ret.op = "must"
                /\ ret.field = "account_id"
                /\ ret.conds = <<call.ctx.account>>
          [] call.ctx.role = "user" ->
                /\ ret.op = "and"
                /\ Len(ret.conds) = 2
                /\ ret.conds[1] = Must("account_id", <<call.ctx.account>>)
                /\ ret.conds[2] = Must("owner_space",
                                       <<UserSpaceName(call.ctx.user),
                                         AgentSpaceName(call.ctx.user, call.ctx.agent),
                                         "">>)

-----------------------------------------------------------------------------
(* VikingFS.  A URI viking://a/b is the sequence <<"a", "b">>; viking://   *)
(* is << >>.  A backend path /local/x/y is <<"local", "x", "y">>.          *)

MaxFiles == 1

StructuralDirs == {<< >>, <<"user">>, <<"agent">>, <<"resources">>}

FsUris ==
    StructuralDirs \cup
    { <<"session">>,
      <<"resources", "foo.txt">>,
      <<"user", "us_alice", "memories">>,
      <<"agent", "as_bob_agent2", "skills">>,
      <<"acme", "resources", "foo.txt">> }

FsContexts ==
    { Ctx(a, "alice", "agent1", "user") : a \in AccountIds } \cup
    { Ctx("default", "bob", "agent2", "user"),
      Ctx("acme", "alice", "agent1", "admin"),
      Ctx("default", "alice", "agent1", "root") }

(* uri_to_path(uri, account_id): join with /local, the account first when  *)
(* it is non-empty.                                                        *)
UriToPathNoAccount(uri, account_id) == <<"local">> \o uri

UriToPath(uri, account_id) ==
    <<"local">> \o (IF account_id = "" THEN << >> ELSE <<account_id>>) \o uri

(* Enforcement step 1: the account injected for a caller, none for ROOT. *)
PathAccount(ctx) == IF ctx.role = "root" THEN "" ELSE ctx.account

(* extract_space_from_uri: {} is None. *)
ExtractSpaceFromUri(uri) ==
    IF Len(uri) >= 2 /\ uri[1] \in {"user", "agent", "session"}
    THEN {uri[2]} ELSE {}

OwnSpaces(ctx) == {UserSpaceName(ctx.user), AgentSpaceName(ctx.user, ctx.agent)}

(* Enforcement step 3, the rule for a USER caller. *)
UserAllowed(uri, ctx) ==
    \/ uri \in StructuralDirs
    \/ (Len(uri) >= 2 /\ uri[1] = "resources")
    \/ ExtractSpaceFromUri(uri) \cap OwnSpaces(ctx) # {}

IsAccessibleNoSpaceCheck(uri, ctx) ==
    \/ ctx.role \in {"root", "admin"}
    \/ uri \in StructuralDirs
    \/ (Len(uri) >= 2 /\ uri[1] = "resources")
    \/ ExtractSpaceFromUri(uri) # {}

IsAccessible(uri, ctx) ==
    \/ ctx.role \in {"root", "admin"}
    \/ UserAllowed(uri, ctx)

IsPrefix(p, q) == Len(p) <= Len(q) /\ SubSeq(q, 1, Len(p)) = p

(* The entries at or beneath a backend path. *)
Beneath(files, path) == {q \in DOMAIN files : IsPrefix(path, q)}

WriterOf(ctx) == IF ctx.role = "root" THEN "root" ELSE ctx.account

FsResult(op, ctx, uri, result, denied_by, seen) ==
    [op |-> op, ctx |-> ctx, uri |-> uri,
     path |-> UriToPath(uri, PathAccount(ctx)),
     result |-> result, denied_by |-> denied_by, seen |-> seen]

(* The key manager's files on the same backend. *)
AccountsPath == <<"local", "_system", "accounts.json">>
UsersPath(account_id) == <<"local", account_id, "_system", "users.json">>
InvitationTokensPath == <<"local", "_system", "invitation_tokens.json">>

UsersFilesBeneath(path) ==
    {a \in DOMAIN users_json : IsPrefix(path, UsersPath(a))}

(* Every existing file at or beneath a backend path. *)
FilesBeneath(path) ==
    Beneath(fs, path)
    \cup {UsersPath(a) : a \in UsersFilesBeneath(path)}
    \cup (IF accounts_json # {} /\ IsPrefix(path, AccountsPath)
          THEN {AccountsPath} ELSE {})
    \cup (IF tokens_json # {} /\ IsPrefix(path, InvitationTokensPath)
          THEN {InvitationTokensPath} ELSE {})

(* The backend after everything at or beneath path is removed. *)
FsAfterRm(path) == DropAll(fs, Beneath(fs, path))
UsersJsonAfterRm(path) == DropAll(users_json, UsersFilesBeneath(path))
AccountsJsonAfterRm(path) ==
    IF IsPrefix(path, AccountsPath) THEN {} ELSE accounts_json
TokensJsonAfterRm(path) ==
    IF IsPrefix(path, InvitationTokensPath) THEN {} ELSE tokens_json

(* What every VikingFS operation leaves alone. *)
fsFrame == <<mgrVars, now, vec, call, ret, obsVars>>

(* What rm leaves alone. *)
rmFrame == <<accounts, user_keys, invitation_tokens, keysIssued, tokensIssued,
             registered, now, vec, call, ret, obsVars>>

FsDenied(op, ctx, uri) ==
    /\ fs' = fs
    /\ fsResp' = FsResult(op, ctx, uri, "PermissionDenied", "access", {})

FsWrite(ctx, uri) ==
    LET path == UriToPath(uri, PathAccount(ctx)) IN
    /\ \/ ~IsAccessible(uri, ctx)
       \/ path \in DOMAIN fs
       \/ Cardinality(DOMAIN fs) < MaxFiles
    /\ IF ~IsAccessible(uri, ctx)
       THEN FsDenied("write", ctx, uri)
       ELSE /\ fs' = Put(fs, path, WriterOf(ctx))
            /\ fsResp' = FsResult("write", ctx, uri, "ok", "", {})
    /\ resp' = NoResp
    /\ UNCHANGED fsFrame

FsRead(ctx, uri) ==
    LET path == UriToPath(uri, PathAccount(ctx)) IN
    /\ IF ~IsAccessible(uri, ctx)
       THEN FsDenied("read", ctx, uri)
       ELSE /\ fs' = fs
            /\ fsResp' = IF path \in DOMAIN fs
                         THEN FsResult("read", ctx, uri, "ok", "", {<<path, fs[path]>>})
                         ELSE FsResult("read", ctx, uri, "NotFound", "", {})
    /\ resp' = NoResp
    /\ UNCHANGED fsFrame

FsLs(ctx, uri) ==
    LET path == UriToPath(uri, PathAccount(ctx))
        below == Beneath(fs, path) \ {path}
    IN
    /\ IF ~IsAccessible(uri, ctx)
       THEN FsDenied("ls", ctx, uri)
       ELSE /\ fs' = fs
            /\ fsResp' = IF below # {}
                         THEN FsResult("ls", ctx, uri, "ok", "",
                                       {<<q, fs[q]>> : q \in below})
                         ELSE FsResult("ls", ctx, uri, "NotFound", "", {})
    /\ resp' = NoResp
    /\ UNCHANGED fsFrame

(* rm(uri, recursive).  Removing a non-empty directory without recursive  *)
(* fails in the backend; which error class it is mapped to is not fixed.  *)
FsRm(ctx, uri, recursive) ==
    LET path == UriToPath(uri, PathAccount(ctx))
        op == IF recursive THEN "rm_recursive" ELSE "rm"
        keep == /\ fs' = fs
                /\ UNCHANGED <<accounts_json, users_json, tokens_json>>
    IN
    /\ IF ~IsAccessible(uri, ctx)
       THEN /\ FsDenied(op, ctx, uri)
            /\ UNCHANGED <<accounts_json, users_json, tokens_json>>
       ELSE IF recursive /\ uri = << >> /\ ctx.role # "root"
       THEN /\ keep
            /\ fsResp' = FsResult(op, ctx, uri, "PermissionDenied", "rm_root", {})
       ELSE IF FilesBeneath(path) = {}
       THEN /\ keep
            /\ fsResp' = FsResult(op, ctx, uri, "NotFound", "", {})
       ELSE IF recursive \/ FilesBeneath(path) = {path}
       THEN /\ fs' = FsAfterRm(path)
            /\ users_json' = UsersJsonAfterRm(path)
            /\ accounts_json' = AccountsJsonAfterRm(path)
            /\ tokens_json' = TokensJsonAfterRm(path)
            /\ fsResp' = FsResult(op, ctx, uri, "ok", "", {})
       ELSE /\ keep
            /\ \E err \in {"InvalidArgument", "Internal"} :
                  fsResp' = FsResult(op, ctx, uri, err, "", {})
    /\ resp' = NoResp
    /\ UNCHANGED rmFrame

NextFS ==
    \E ctx \in FsContexts, uri \in FsUris :
        \/ FsWrite(ctx, uri)
        \/ FsRead(ctx, uri)
        \/ FsLs(ctx, uri)
        \/ \E recursive \in BOOLEAN : FsRm(ctx, uri, recursive)

SpecFS == Init /\ [][NextFS]_vars

(* C1: a VikingFS operation under a USER context is stopped by the access  *)
(* check exactly when the URI is neither a structural directory, nor under *)
(* resources/, nor in the caller's own user or agent space; it then fails  *)
(* with PermissionDenied, and every operation that fails with              *)
(* PermissionDenied leaves the filesystem unchanged.  ADMIN and ROOT       *)
(* contexts are never stopped by the access check.                         *)
C1_UserAccessRule ==
    [][LET r == fsResp' IN
       /\ r.ctx.role = "user" =>
             /\ (r.denied_by = "access") <=> ~UserAllowed(r.uri, r.ctx)
             /\ ~UserAllowed(r.uri, r.ctx) => r.result = "PermissionDenied"
             /\ (UserAllowed(r.uri, r.ctx) /\ r.result = "PermissionDenied")
                    => (r.op = "rm_recursive" /\ r.uri = << >>)
       /\ r.result = "PermissionDenied" =>
             UNCHANGED <<fs, accounts_json, users_json, tokens_json>>
       /\ r.ctx.role \in {"admin", "root"} => r.denied_by # "access"]_vars

(* A USER was refused a write into another user's space while the          *)
(* filesystem held data.                                                   *)
C1_Witness ==
    /\ fsResp.ctx.role = "user"
    /\ fsResp.op = "write"
    /\ fsResp.result = "PermissionDenied"
    /\ fsResp.denied_by = "access"
    /\ ExtractSpaceFromUri(fsResp.uri) # {}
    /\ DOMAIN fs # {}

(* The account whose data an entry is: its last writer. *)
OtherAccountWrote(u, account) ==
    \E a \in AccountIds \ {account} :
        /\ UriToPath(u, a) \in DOMAIN fs
        /\ fs[UriToPath(u, a)] = a

(* Tenant scoping of a step by a non-ROOT caller: the path lies inside     *)
(* /local/<account>, what is read or listed was written by the caller's    *)
(* account (or placed there by ROOT), and no entry another account wrote   *)
(* is modified.                                                            *)
TenantScoped(r) ==
    /\ IsPrefix(<<"local", r.ctx.account>>, r.path)
    /\ \A s \in r.seen : s[2] \in {r.ctx.account, "root"}
    /\ \A q \in DOMAIN fs :
          fs[q] \notin {r.ctx.account, "root"} =>
              (q \in DOMAIN fs' /\ fs'[q] = fs[q])

(* A read of a URI that another account has written and the caller's has   *)
(* not. *)
ForeignRead(r) ==
    /\ r.op = "read"
    /\ OtherAccountWrote(r.uri, r.ctx.account)
    /\ r.path \notin DOMAIN fs

-----------------------------------------------------------------------------
(* The admin router's DELETE /accounts/{account_id} and the storage it     *)
(* cleans.                                                                 *)

(* The limit of the handler's filter call. *)
FilterLimit == 10000

Min(a, b) == IF a <= b THEN a ELSE b

(* Record counts an account's share of the context collection may have. *)
VecCounts == {0, 1, FilterLimit, FilterLimit + 1}

(* n inserts of records whose account_id is account_id. *)
VecInsert(account_id, n) ==
    /\ vec[account_id] + n \in VecCounts
    /\ vec' = [vec EXCEPT ![account_id] = @ + n]
    /\ resp' = NoResp
    /\ UNCHANGED <<mgrVars, now, fs, fsResp, call, ret, obsVars>>

(* delete_account(account_id).  fsFails: the VikingFS cleanup raised       *)
(* before removing anything; vecFails: there is no vikingdb_manager or the *)
(* vector cleanup raised before deleting.  Both are logged and swallowed.  *)
(* The handler runs rm("viking://", recursive=True) under a ROOT context   *)
(* for the account, deletes the records one filter call of FilterLimit     *)
(* returns, then calls APIKeyManager.delete_account.                       *)
AdminDeleteAccount(account_id, fsFails, vecFails) ==
    LET cleanup_ctx == Ctx(account_id, "cleanup", "cleanup", "root")
        path == UriToPath(<< >>, PathAccount(cleanup_ctx))
        removes == ~fsFails /\ FilesBeneath(path) # {}
        ids == IF vecFails THEN 0 ELSE Min(vec[account_id], FilterLimit)
    IN
    /\ fs' = IF removes THEN FsAfterRm(path) ELSE fs
    /\ users_json' = IF removes THEN UsersJsonAfterRm(path) ELSE users_json
    /\ tokens_json' = IF removes THEN TokensJsonAfterRm(path) ELSE tokens_json
    /\ fsResp' = IF fsFails THEN fsResp
                 ELSE FsResult("rm_recursive", cleanup_ctx, << >>,
                               IF removes THEN "ok" ELSE "NotFound", "", {})
    /\ vec' = [vec EXCEPT ![account_id] = @ - ids]
    /\ IF account_id \notin DOMAIN accounts
       THEN /\ accounts_json' = IF removes THEN AccountsJsonAfterRm(path)
                                ELSE accounts_json
            /\ resp' = Resp("admin_delete_account", "NotFound", account_id, "", "",
                            EmptyKey, 0)
            /\ UNCHANGED <<accounts, user_keys>>
       ELSE /\ accounts' = Drop(accounts, account_id)
            /\ user_keys' = DropAll(user_keys, AccountKeys(account_id))
            /\ accounts_json' = SaveAccountsJson(Drop(accounts, account_id))
            /\ resp' = Resp("admin_delete_account", "ok", account_id, "", "",
                            EmptyKey, 0)
    /\ UNCHANGED <<invitation_tokens, keysIssued, tokensIssued, registered, now,
                   call, ret, obsVars>>

(* Accounts are created, their users write resources and have records      *)
(* inserted, and ROOT deletes accounts.                                    *)
NextAdmin ==
    \/ \E a \in AccountIds : CreateAccount(a, "alice")
    \/ \E a \in AccountIds :
          FsWrite(Ctx(a, "alice", "agent1", "user"), <<"resources", "foo.txt">>)
    \/ \E a \in AccountIds, n \in {1, FilterLimit} : VecInsert(a, n)
    \/ \E a \in AccountIds, fsFails \in BOOLEAN, vecFails \in BOOLEAN :
          AdminDeleteAccount(a, fsFails, vecFails)

SpecAdmin == Init /\ [][NextAdmin]_vars

(* A step of the handler for an account, completed with status ok. *)
DeletedOk == resp'.op = "admin_delete_account" /\ resp'.result = "ok"

(* C9 as stated: after the delete-account handler completes successfully   *)
(* for account a, the context collection holds no record whose account_id  *)
(* is a, whatever number of records the account had.                       *)
C9_NoVectorRecordLeft ==
    [][DeletedOk => vec'[resp'.account] = 0]_vars

(* C10 as stated: when the delete-account handler completes for account a, *)
(* the VikingFS subtree, the vector records, the user registry and the API *)
(* keys of every other account are unchanged.                              *)
C10_OnlyTargetAccount ==
    [][DeletedOk =>
        \A b \in AccountIds \ {resp'.account} :
            /\ \A q \in Beneath(fs, <<"local", b>>) :
                  q \in DOMAIN fs' /\ fs'[q] = fs[q]
            /\ vec'[b] = vec[b]
            /\ b \in DOMAIN users_json =>
                  (b \in DOMAIN users_json' /\ users_json'[b] = users_json[b])
            /\ b \in DOMAIN accounts =>
                  (b \in DOMAIN accounts' /\ accounts'[b] = accounts[b])
            /\ \A k \in DOMAIN user_keys :
                  user_keys[k].account_id = b =>
                      (k \in DOMAIN user_keys' /\ user_keys'[k] = user_keys[k])]_vars

(* The state after load() on a storage where an earlier run created the    *)
(* account "acme" with admin alice: her key was drawn by that run.         *)
LoadedKey == RootKey + MaxKeys + 1

LoadedUsers == Put(EmptyDict, "alice", [role |-> "admin", key |-> LoadedKey])

InitLoaded ==
    /\ accounts = Put(Put(EmptyDict, "default", EmptyDict), "acme", LoadedUsers)
    /\ user_keys = Put(EmptyDict, LoadedKey,
                       [account_id |-> "acme", user_id |-> "alice", role |-> "admin"])
    /\ invitation_tokens = EmptyDict
    /\ accounts_json = {{"default", "acme"}}
    /\ users_json = Put(EmptyDict, "acme", LoadedUsers)
    /\ tokens_json = {}
    /\ keysIssued = 0
    /\ tokensIssued = 0
    /\ registered = EmptyDict
    /\ now = 0
    /\ resp = NoResp
    /\ InitStorage
    /\ call = NoCall
    /\ ret = NoCall

(* User management in the loaded account. *)
NextKeys ==
    \/ \E k \in PresentedKeys : ResolveReq(k)
    \/ \E u \in UserIds, r \in RoleStrings : RegisterUser("acme", u, r)
    \/ \E u \in UserIds : RemoveUser("acme", u)
    \/ \E u \in UserIds : RegenerateKey("acme", u)
    \/ \E u \in UserIds, r \in RoleStrings : SetRole("acme", u, r)

SpecKeys == InitLoaded /\ [][NextKeys]_vars

-----------------------------------------------------------------------------
(* Key regeneration *)

(* The keys secrets.token_hex has produced so far. *)
IssuedKeys == ((RootKey + 1) .. (RootKey + keysIssued)) \cup {LoadedKey}

(* C11: when regenerate_key(a, u) returns k', the user's previous key is   *)
(* Unauthenticated, k' resolves to (a, u) with the role the user had, and  *)
(* every other key resolves as before; and a key that was issued and is no *)
(* longer valid is Unauthenticated after every later step.                 *)
C11_RegenerateKey ==
    [][/\ (resp'.op = "regenerate_key" /\ resp'.result = "ok") =>
            LET old_key == accounts[resp'.account][resp'.user].key IN
            /\ resp'.key # old_key
            /\ ResolveIn(user_keys', old_key) = Unauthenticated
            /\ ResolveIn(user_keys', resp'.key) =
                  [result |-> "ok", role |-> accounts[resp'.account][resp'.user].role,
                   account |-> resp'.account, user |-> resp'.user]
            /\ accounts'[resp'.account][resp'.user].role =
                  accounts[resp'.account][resp'.user].role
            /\ \A k \in PresentedKeys \ {old_key, resp'.key} :
                  ResolveIn(user_keys', k) = Resolve(k)
       /\ \A k \in IssuedKeys :
            Resolve(k) = Unauthenticated => ResolveIn(user_keys', k) = Unauthenticated
      ]_vars

(* A key was regenerated for a user whose previous key was valid, while    *)
(* another user holds a valid key.                                         *)
C11_Witness ==
    /\ resp.op = "regenerate_key"
    /\ resp.result = "ok"
    /\ Resolve(resp.key).user = resp.user
    /\ \E k \in IssuedKeys : k # resp.key /\ Resolve(k) = Unauthenticated
    /\ \E k \in DOMAIN user_keys : user_keys[k].user_id # resp.user

-----------------------------------------------------------------------------
(* The admin router: every endpoint is gated by require_role, the user     *)
(* endpoints also by _check_account_access.  A request arrives (call) and  *)
(* is then handled.                                                        *)

AdminOps == {"create_account", "list_accounts", "delete_account", "register_user",
             "list_users", "remove_user", "set_role", "regenerate_key"}

(* The roles named in each endpoint's require_role(...). *)
AllowedRoles(op) ==
    IF op \in {"create_account", "list_accounts", "delete_account", "set_role"}
    THEN {"root"} ELSE {"root", "admin"}

(* The endpoints that call _check_account_access. *)
ChecksAccount(op) ==
    op \in {"register_user", "list_users", "remove_user", "regenerate_key"}

(* require_role(allowed...): the resolved caller's role must be one of them. *)
RequireRole(ctx, allowed) == ctx.role \in allowed

CheckAccountAccessNone(ctx, account_id) == TRUE

(* _check_account_access: FALSE when it raises PermissionDeniedError. *)
CheckAccountAccess(ctx, account_id) ==
    ~(ctx.role = "admin" /\ ctx.account # account_id)

Refused(op, ctx, account_id) ==
    \/ ~RequireRole(ctx, AllowedRoles(op))
    \/ (ChecksAccount(op) /\ ~CheckAccountAccess(ctx, account_id))

Refuse(op, account_id) ==
    /\ resp' = Resp(op, "PermissionDenied", account_id, "", "", EmptyKey, 0)
    /\ UNCHANGED <<mgrVars, now, restVars>>

Callers ==
    { Ctx("default", "alice", "agent1", "root"),
      Ctx("acme", "alice", "agent1", "admin"),
      Ctx("default", "alice", "agent1", "admin"),
      Ctx("acme", "bob", "agent2", "user") }

AdminRequests ==
    {[fn |-> "admin", op |-> op, ctx |-> ctx, account |-> a] :
        op \in AdminOps, ctx \in Callers, a \in AccountIds}

Arrive(req) ==
    /\ call' = req
    /\ resp' = NoResp
    /\ UNCHANGED <<mgrVars, now, fs, fsResp, vec, ret, obsVars>>

(* APIKeyManager.get_accounts / get_users *)
GetAccounts ==
    /\ resp' = Resp("list_accounts", "ok", "", "", "", EmptyKey, 0)
    /\ UNCHANGED <<mgrVars, now, restVars>>

GetUsers(account_id) ==
    /\ resp' = Resp("list_users",
                    IF account_id \in DOMAIN accounts THEN "ok" ELSE "NotFound",
                    account_id, "", "", EmptyKey, 0)
    /\ UNCHANGED <<mgrVars, now, restVars>>

Handling(op) == call.fn = "admin" /\ call.op = op

HCreateAccount ==
    /\ Handling("create_account")
    /\ IF Refused(call.op, call.ctx, call.account) THEN Refuse(call.op, call.account)
       ELSE CreateAccount(call.account, "bob")

HListAccounts ==
    /\ Handling("list_accounts")
    /\ IF Refused(call.op, call.ctx, call.account) THEN Refuse(call.op, call.account)
       ELSE GetAccounts

HDeleteAccount ==
    /\ Handling("delete_account")
    /\ IF Refused(call.op, call.ctx, call.account) THEN Refuse(call.op, call.account)
       ELSE \E fsFails \in BOOLEAN, vecFails \in BOOLEAN :
               AdminDeleteAccount(call.account, fsFails, vecFails)

HRegisterUser ==
    /\ Handling("register_user")
    /\ IF Refused(call.op, call.ctx, call.account) THEN Refuse(call.op, call.account)
       ELSE RegisterUser(call.account, "alice", "user")

HListUsers ==
    /\ Handling("list_users")
    /\ IF Refused(call.op, call.ctx, call.account) THEN Refuse(call.op, call.account)
       ELSE GetUsers(call.account)

HRemoveUser ==
    /\ Handling("remove_user")
    /\ IF Refused(call.op, call.ctx, call.account) THEN Refuse(call.op, call.account)
       ELSE \E u \in UserIds : RemoveUser(call.account, u)

HSetUserRole ==
    /\ Handling("set_role")
    /\ IF Refused(call.op, call.ctx, call.account) THEN Refuse(call.op, call.account)
       ELSE \E u \in UserIds : SetRole(call.account, u, "admin")

HRegenerateKey ==
    /\ Handling("regenerate_key")
    /\ IF Refused(call.op, call.ctx, call.account) THEN Refuse(call.op, call.account)
       ELSE \E u \in UserIds : RegenerateKey(call.account, u)

NextHandlers ==
    \/ \E req \in AdminRequests : Arrive(req)
    \/ HCreateAccount
    \/ HListAccounts
    \/ HDeleteAccount
    \/ HRegisterUser
    \/ HListUsers
    \/ HRemoveUser
    \/ HSetUserRole
    \/ HRegenerateKey

SpecHandlers == Init /\ [][NextHandlers]_vars

UserEndpoints == {"register_user", "list_users", "remove_user", "regenerate_key"}
RootEndpoints == {"create_account", "list_accounts", "delete_account", "set_role"}

(* C12: a request of an ADMIN caller to register-user, list-users,         *)
(* remove-user or regenerate-key for an account other than its own is      *)
(* answered PermissionDenied with the key manager's state unchanged; and   *)
(* account create, list, delete and set-role are refused, state unchanged, *)
(* for every caller that is not ROOT.                                      *)
C12_AdminAccessCheck ==
    [][(call' = call /\ call.fn = "admin" /\ resp'.op # "none") =>
         LET denied == /\ resp'.op = call.op
                       /\ resp'.result = "PermissionDenied"
                       /\ UNCHANGED mgrVars
         IN /\ (call.ctx.role = "admin" /\ call.account # call.ctx.account
                   /\ call.op \in UserEndpoints) => denied
            /\ (call.ctx.role # "root" /\ call.op \in RootEndpoints) => denied
      ]_vars

(* An ADMIN of one account was refused the removal of an existing user of  *)
(* another account.                                                        *)
C12_Witness ==
    /\ call.fn = "admin"
    /\ call.op = "remove_user"
    /\ call.ctx.role = "admin"
    /\ call.account # call.ctx.account
    /\ call.account \in DOMAIN accounts
    /\ accounts[call.account] # EmptyDict
    /\ resp.op = "remove_user"
    /\ resp.result = "PermissionDenied"

-----------------------------------------------------------------------------
(* Concurrent calls of the key manager.  The manager holds no lock; its    *)
(* methods are coroutines run by one event loop, which switches between    *)
(* them only where a coroutine suspends.  create_account contains no       *)
(* await; the one await of create_account_with_token (line 347) is on      *)
(* create_account, which runs to completion without suspending.            *)
(* call holds the two calls in flight, ret the position or outcome of each.*)

Calls == 1 .. 2

Finished(outcome) == outcome # "pending"

(* No pair of calls is in flight. *)
Idle == call.fn = "race" => \A i \in Calls : Finished(ret[i])

(* A token with exactly one remaining use that is not expired. *)
OneUseLeft(token) ==
    /\ token \in DOMAIN invitation_tokens
    /\ ~Expired(invitation_tokens[token])
    /\ \E m \in invitation_tokens[token].max_uses :
          m - invitation_tokens[token].used_count = 1

(* Two create_account_with_token calls on one token, each of which would   *)
(* succeed alone, or two create_account calls for one absent account id,   *)
(* are made while no call is in flight.                                    *)
Spawn(kind, token, a1, a2) ==
    /\ Idle
    /\ {a1, a2} \cap DOMAIN accounts = {}
    /\ keysIssued < MaxKeys
    /\ IF kind = "create_account_with_token"
       THEN OneUseLeft(token)
       ELSE token = 0 /\ a1 = a2
    /\ call' = [fn |-> "race", kind |-> kind, token |-> token,
                account |-> <<a1, a2>>, user |-> <<"alice", "bob">>]
    /\ ret' = <<"pending", "pending">>
    /\ resp' = NoResp
    /\ UNCHANGED <<mgrVars, now, fs, fsResp, vec, obsVars>>

(* create_account of call i, run by the event loop without interruption. *)
RunCreateAccount(i) ==
    /\ call.fn = "race"
    /\ call.kind = "create_account"
    /\ ret[i] = "pending"
    /\ IF call.account[i] \in DOMAIN accounts
       THEN /\ ret' = [ret EXCEPT ![i] = "AlreadyExists"]
            /\ resp' = Resp("create_account", "AlreadyExists", call.account[i], "", "",
                            EmptyKey, 0)
            /\ UNCHANGED mgrVars
       ELSE /\ DoCreateAccount(call.account[i], call.user[i])
            /\ ret' = [ret EXCEPT ![i] = "ok"]
            /\ resp' = Resp("create_account", "ok", call.account[i], call.user[i],
                            "admin", NewKey, 0)
            /\ UNCHANGED <<invitation_tokens, tokens_json, tokensIssued, registered>>
    /\ UNCHANGED <<now, fs, fsResp, vec, call, obsVars>>

(* Lines 345-353 of call i: create_account, then the count and the save. *)
CreateAndCount(i) ==
    IF call.account[i] \in DOMAIN accounts
    THEN /\ ret' = [ret EXCEPT ![i] = "AlreadyExists"]
         /\ resp' = Resp("create_account_with_token", "AlreadyExists", call.account[i],
                         "", "", EmptyKey, call.token)
         /\ UNCHANGED mgrVars
    ELSE LET tokens == [invitation_tokens EXCEPT ![call.token].used_count = @ + 1]
         IN /\ DoCreateAccount(call.account[i], call.user[i])
            /\ invitation_tokens' = tokens
            /\ tokens_json' = SaveInvitationTokens(tokens)
            /\ registered' = [registered EXCEPT ![call.token] = @ + 1]
            /\ ret' = [ret EXCEPT ![i] = "ok"]
            /\ resp' = Resp("create_account_with_token", "ok", call.account[i],
                            call.user[i], "admin", NewKey, call.token)
            /\ UNCHANGED tokensIssued

RunTokenCallChecksEarlier(i) ==
    /\ call.fn = "race"
    /\ call.kind = "create_account_with_token"
    /\ ret[i] = "pending"
    /\ CreateAndCount(i)
    /\ UNCHANGED <<now, fs, fsResp, vec, call, obsVars>>

(* create_account_with_token of call i, run by the event loop without      *)
(* interruption: the token checks (lines 330-344), then the rest.          *)
RunTokenCall(i) ==
    /\ call.fn = "race"
    /\ call.kind = "create_account_with_token"
    /\ ret[i] = "pending"
    /\ LET token_info == invitation_tokens[call.token]
           refusal == IF call.token \notin DOMAIN invitation_tokens
                      THEN "InvalidArgument: invalid token"
                      ELSE IF Expired(token_info) THEN "InvalidArgument: expired"
                      ELSE IF UsedUp(token_info) THEN "InvalidArgument: maximum uses"
                      ELSE "none"
       IN IF refusal # "none"
          THEN /\ ret' = [ret EXCEPT ![i] = refusal]
               /\ resp' = Resp("create_account_with_token", refusal, call.account[i],
                               "", "", EmptyKey, call.token)
               /\ UNCHANGED mgrVars
          ELSE CreateAndCount(i)
    /\ UNCHANGED <<now, fs, fsResp, vec, call, obsVars>>

(* Tokens that never expire are created and used while no pair is in       *)
(* flight; a pair of calls is made and its two calls run in either order.  *)
NextRace ==
    \/ Idle /\ \E m \in OptUses : CreateInvitationToken(m, {})
    \/ Idle /\ \E t \in PresentedTokens, a \in AccountIds :
                  CreateAccountWithToken(t, a, "alice")
    \/ Idle /\ \E a \in AccountIds : DeleteAccount(a)
    \/ \E t \in PresentedTokens, a1 \in AccountIds, a2 \in AccountIds :
          Spawn("create_account_with_token", t, a1, a2)
    \/ \E a \in AccountIds : Spawn("create_account", 0, a, a)
    \/ \E i \in Calls : RunCreateAccount(i)
    \/ \E i \in Calls : RunTokenCall(i)

SpecRace == Init /\ [][NextRace]_vars

Succeeded == {i \in Calls : ret[i] = "ok"}

(* C13: when two create_account_with_token calls on a token with exactly   *)
(* one remaining use (each of which would succeed alone), or two           *)
(* create_account calls for the same absent account id, were in flight     *)
(* together and both have returned, exactly one succeeded and the other    *)
(* failed, and the token's used_count equals its max_uses; while they run, *)
(* at most one has succeeded.                                              *)
C13_MutualExclusion ==
    call.fn = "race" =>
        /\ Cardinality(Succeeded) <= 1
        /\ (\A i \in Calls : Finished(ret[i])) =>
              /\ Cardinality(Succeeded) = 1
              /\ call.kind = "create_account_with_token" =>
                    /\ call.token \in DOMAIN invitation_tokens
                    /\ invitation_tokens[call.token].max_uses =
                          {invitation_tokens[call.token].used_count}

(* Two calls on one token for different accounts have both returned: one   *)
(* created its account, the other was refused for the use limit.           *)
C13_Witness ==
    /\ call.fn = "race"
    /\ call.kind = "create_account_with_token"
    /\ call.account[1] # call.account[2]
    /\ \E i \in Calls : ret[i] = "ok"
    /\ \E i \in Calls : ret[i] = "InvalidArgument: maximum uses"

-----------------------------------------------------------------------------
(* APIKeyManager.load of a new manager.  _read_json returns None (here {}) *)
(* for a file that is missing and for one that cannot be read or parsed    *)
(* (lines 357-365).                                                        *)

ReadJson(file, unreadable) == IF unreadable THEN {} ELSE file

(* load() on the given contents of accounts.json, the users files and the  *)
(* tokens file, unreadable naming the files whose read raises.  A stored   *)
(* role that is no Role makes Role(...) raise ValueError (line 89).        *)
Load(aj, uj, tj, unreadable) ==
    LET accounts_read == ReadJson(aj, "accounts" \in unreadable)
        accounts_data == IF accounts_read = {} THEN {"default"}
                         ELSE CHOOSE s \in accounts_read : TRUE
        users(a) == IF a \in DOMAIN uj /\ a \notin unreadable THEN uj[a] ELSE EmptyDict
        accts == [a \in accounts_data |-> users(a)]
        entries == {e \in accounts_data \X UserIds :
                       /\ e[2] \in DOMAIN accts[e[1]]
                       /\ accts[e[1]][e[2]].key # EmptyKey}
        keys == {accts[e[1]][e[2]].key : e \in entries}
        index == [k \in keys |->
                    LET e == CHOOSE e \in entries : accts[e[1]][e[2]].key = k
                    IN [account_id |-> e[1], user_id |-> e[2],
                        role |-> accts[e[1]][e[2]].role]]
        tokens_read == ReadJson(tj, "tokens" \in unreadable)
        tokens == IF tokens_read = {} THEN EmptyDict
                  ELSE CHOOSE t \in tokens_read : TRUE
    IN IF \E e \in entries : accts[e[1]][e[2]].role \notin ValidRoles
       THEN [result |-> "ValueError", wrote_accounts |-> accounts_read = {},
             accounts |-> EmptyDict, user_keys |-> EmptyDict,
             invitation_tokens |-> EmptyDict]
       ELSE [result |-> "ok", wrote_accounts |-> accounts_read = {},
             accounts |-> accts, user_keys |-> index, invitation_tokens |-> tokens]

(* A new manager's load() on the files as they are now, all readable. *)
Reloaded == Load(accounts_json, users_json, tokens_json, {})

MutatingOps == {"create_account", "delete_account", "register_user", "remove_user",
                "set_role", "regenerate_key", "create_invitation_token",
                "revoke_invitation_token", "create_account_with_token"}

(* C14: after every completed mutating operation of the manager, load() of *)
(* a new manager on the persisted files succeeds and yields the accounts   *)
(* with their users and roles, the key index and the invitation tokens of  *)
(* the in-memory state.                                                    *)
C14_LoadRoundTrip ==
    (resp.op \in MutatingOps /\ resp.result = "ok") =>
        /\ Reloaded.result = "ok"
        /\ Reloaded.accounts = accounts
        /\ Reloaded.user_keys = user_keys
        /\ Reloaded.invitation_tokens = invitation_tokens

-----------------------------------------------------------------------------
(* Startup: the server process ends and a new APIKeyManager runs load() on *)
(* the files the previous one left, some of which may not be readable.     *)

FileNames == {"accounts"} \cup AccountIds

Restart(unreadable) ==
    LET loaded == Load(accounts_json, users_json, tokens_json, unreadable)
    IN /\ accounts' = loaded.accounts
       /\ user_keys' = loaded.user_keys
       /\ invitation_tokens' = loaded.invitation_tokens
       /\ accounts_json' = IF loaded.wrote_accounts THEN {{"default"}} ELSE accounts_json
       /\ call' = [fn |-> "load", unreadable |-> unreadable]
       /\ resp' = Resp("load", loaded.result, "", "", "", EmptyKey, 0)
       /\ UNCHANGED <<users_json, tokens_json, keysIssued, tokensIssued, registered,
                      now, fs, fsResp, vec, ret, obsVars>>

(* Accounts and users are created with valid roles, and the server is     *)
(* restarted.                                                              *)
NextLoad ==
    \/ \E a \in AccountIds, u \in UserIds : CreateAccount(a, u)
    \/ \E a \in AccountIds, u \in UserIds, r \in {"admin", "user"} :
          RegisterUser(a, u, r)
    \/ \E unreadable \in SUBSET FileNames : Restart(unreadable)

SpecLoad == Init /\ [][NextLoad]_vars

(* A file that exists is among the unreadable ones: accounts.json, or the  *)
(* users file of an account that accounts.json lists.                      *)
ExistingFileUnreadable(unreadable) ==
    \/ accounts_json # {} /\ "accounts" \in unreadable
    \/ \E listed \in accounts_json :
          \E a \in listed : a \in DOMAIN users_json /\ a \in unreadable

(* C15: when the persisted accounts file or a persisted user registry      *)
(* exists but cannot be read or parsed at startup, load() fails; it never  *)
(* completes with an index of only part of the persisted accounts and      *)
(* users.                                                                  *)
C15_LoadFailsOnUnreadable ==
    [][(resp'.op = "load" /\ call'.fn = "load"
           /\ ExistingFileUnreadable(call'.unreadable))
          => resp'.result # "ok"]_vars

-----------------------------------------------------------------------------
(* RequestTraceCollector (openviking/trace/request_trace.py), used by one  *)
(* caller.  An event is modelled by its name; its position in _events is   *)
(* its order of arrival.                                                   *)

MaxEvents == 2
MaxCalls == 4

EventNames == {"search", "rerank"}
CounterKeys == {"token.input_tokens", "vector.search_calls"}
Deltas == 1 .. 2
GaugeKeys == {"vector.returned"}
GaugeValues == 1 .. 2

(* What tracing leaves alone. *)
traceFrame == <<mgrVars, now, fs, fsResp, vec, call, resp>>

(* RequestTraceCollector.__init__: no events, counters defaulting to 0     *)
(* (defaultdict(float)), no gauges, the lock free.                         *)
NewCollector(enabled, max_events) ==
    [enabled |-> enabled, max_events |-> max_events, events |-> << >>,
     counters |-> [k \in CounterKeys |-> 0], gauges |-> [k \in GaugeKeys |-> {}],
     dropped_events |-> 0, lock |-> 0]

(* The calls made so far: the event() names in call order, the sum of the  *)
(* deltas passed to count() per key, the last value passed to set().       *)
NoneMade == [events |-> << >>, deltas |-> [k \in CounterKeys |-> 0],
             values |-> [k \in GaugeKeys |-> {}], calls |-> 0]

StoreEventRing(c, name) ==
    IF Len(c.events) >= c.max_events
    THEN [c EXCEPT !.dropped_events = @ + 1,
                   !.events = IF c.max_events = 0 THEN << >>
                              ELSE Append(Tail(@), name)]
    ELSE [c EXCEPT !.events = Append(@, name)]

(* The body of event() under the lock (lines 152-162). *)
StoreEvent(c, name) ==
    IF Len(c.events) >= c.max_events
    THEN [c EXCEPT !.dropped_events = @ + 1]
    ELSE [c EXCEPT !.events = Append(@, name)]

(* TraceSummaryBuilder.build, the fields computed from the collector. *)
Build(c) ==
    [input_tokens |-> c.counters["token.input_tokens"],
     search_calls |-> c.counters["vector.search_calls"],
     returned |-> c.gauges["vector.returned"],
     events_truncated |-> c.dropped_events > 0,
     dropped_events |-> c.dropped_events]

Unfinished == ret = NoCall /\ made.calls < MaxCalls

(* RequestTraceCollector.event *)
Event(name) ==
    /\ Unfinished
    /\ collector' = IF collector.enabled THEN StoreEvent(collector, name) ELSE collector
    /\ made' = [made EXCEPT !.events = Append(@, name), !.calls = @ + 1]
    /\ UNCHANGED <<traceFrame, ret, workers, context, recorder>>

(* RequestTraceCollector.count *)
Count(key, delta) ==
    /\ Unfinished
    /\ collector' = IF collector.enabled
                    THEN [collector EXCEPT !.counters[key] = @ + delta]
                    ELSE collector
    /\ made' = [made EXCEPT !.deltas[key] = @ + delta, !.calls = @ + 1]
    /\ UNCHANGED <<traceFrame, ret, workers, context, recorder>>

(* RequestTraceCollector.set *)
Set(key, value) ==
    /\ Unfinished
    /\ collector' = IF collector.enabled
                    THEN [collector EXCEPT !.gauges[key] = {value}]
                    ELSE collector
    /\ made' = [made EXCEPT !.values[key] = {value}, !.calls = @ + 1]
    /\ UNCHANGED <<traceFrame, ret, workers, context, recorder>>

(* RequestTraceCollector.finish: None when disabled, else the summary and  *)
(* a copy of the events.                                                   *)
Finish ==
    /\ ret = NoCall
    /\ ret' = IF collector.enabled
              THEN [fn |-> "finish", summary |-> {Build(collector)},
                    events |-> collector.events]
              ELSE [fn |-> "finish", summary |-> {}, events |-> << >>]
    /\ UNCHANGED <<traceFrame, collector, made, workers, context, recorder>>

(* A handler creates its collector, enabled or not, with some capacity. *)
InitCollector ==
    /\ InitManager
    /\ fs = EmptyDict
    /\ fsResp = NoFsResp
    /\ vec = [a \in AccountIds |-> 0]
    /\ call = NoCall
    /\ ret = NoCall
    /\ \E enabled \in BOOLEAN, max_events \in 0 .. MaxEvents :
          collector = NewCollector(enabled, max_events)
    /\ made = NoneMade
    /\ workers = << >>
    /\ context = << >>
    /\ recorder = << >>

NextCollector ==
    \/ \E name \in EventNames : Event(name)
    \/ \E key \in CounterKeys, delta \in Deltas : Count(key, delta)
    \/ \E key \in GaugeKeys, value \in GaugeValues : Set(key, value)
    \/ Finish

SpecCollector == InitCollector /\ [][NextCollector]_vars

(* C16: for an enabled collector with capacity max_events, after N event() *)
(* calls the stored events are the first min(N, max_events) events in call *)
(* order, dropped_events is max(0, N - max_events), and the summary that   *)
(* finish() builds has events_truncated true exactly when N > max_events.  *)
C16_EventCap ==
    collector.enabled =>
        LET N == Len(made.events)
            kept == Min(N, collector.max_events)
        IN /\ collector.events = SubSeq(made.events, 1, kept)
           /\ collector.dropped_events = N - kept
           /\ Build(collector).events_truncated <=> N > collector.max_events
           /\ \A summary \in (IF ret = NoCall THEN {} ELSE ret.summary) :
                 /\ summary.events_truncated <=> N > collector.max_events
                 /\ summary.dropped_events = N - kept
                 /\ ret.events = SubSeq(made.events, 1, kept)

(* More events than the capacity were sent and the request has finished. *)
C16_Witness ==
    /\ collector.enabled
    /\ collector.max_events > 0
    /\ Len(made.events) > collector.max_events + 1
    /\ collector.events # SubSeq(made.events, Len(made.events) - collector.max_events + 1,
                                 Len(made.events))
    /\ ret # NoCall

-----------------------------------------------------------------------------
(* One enabled collector shared by threads.  A call is made (it has passed *)
(* the enabled test and waits for self._lock), enters (it takes the lock   *)
(* and reads what its statement reads) and leaves (it writes and releases  *)
(* the lock): the read and the write of _dropped_events += 1 and of        *)
(* _counters[key] += delta are separate bytecodes.                         *)

Threads == 1 .. 2

IdleWorker == [pc |-> "idle"]

LockFreeAlways(c) == TRUE

(* threading.Lock: acquire succeeds only when no thread holds it. *)
LockFree(c) == c.lock = 0

(* A thread calls event(), count() or set(). *)
Begin(t, op, key, value) ==
    /\ workers[t].pc = "idle"
    /\ made.calls < MaxCalls
    /\ collector.enabled
    /\ workers' = [workers EXCEPT ![t] =
                      [pc |-> "waiting", op |-> op, key |-> key, value |-> value]]
    /\ made' = CASE op = "event" -> [made EXCEPT !.events = Append(@, key),
                                                 !.calls = @ + 1]
                 [] op = "count" -> [made EXCEPT !.deltas[key] = @ + value,
                                                 !.calls = @ + 1]
                 [] op = "set" -> [made EXCEPT !.values[key] = {value},
                                               !.calls = @ + 1]
    /\ UNCHANGED <<traceFrame, ret, collector, context, recorder>>

(* with self._lock: the thread acquires the lock and evaluates the reads   *)
(* of its statement.                                                       *)
Enter(t) ==
    /\ workers[t].pc = "waiting"
    /\ LockFree(collector)
    /\ collector' = [collector EXCEPT !.lock = t]
    /\ workers' = [workers EXCEPT ![t] =
          [@ EXCEPT !.pc = "inside"] @@
          [full |-> Len(collector.events) >= collector.max_events,
           read |-> IF workers[t].op = "event" THEN collector.dropped_events
                    ELSE IF workers[t].op = "count"
                    THEN collector.counters[workers[t].key]
                    ELSE 0]]
    /\ UNCHANGED <<traceFrame, ret, made, context, recorder>>

(* The thread stores its result and the with block releases the lock. *)
Leave(t) ==
    /\ workers[t].pc = "inside"
    /\ LET w == workers[t]
           c == [collector EXCEPT !.lock = 0]
       IN collector' =
             CASE w.op = "event" ->
                    IF w.full THEN [c EXCEPT !.dropped_events = w.read + 1]
                    ELSE [c EXCEPT !.events = Append(@, w.key)]
               [] w.op = "count" -> [c EXCEPT !.counters[w.key] = w.read + w.value]
               [] w.op = "set" -> [c EXCEPT !.gauges[w.key] = {w.value}]
    /\ workers' = [workers EXCEPT ![t] = IdleWorker]
    /\ UNCHANGED <<traceFrame, ret, made, context, recorder>>

InitShared ==
    /\ InitManager
    /\ fs = EmptyDict
    /\ fsResp = NoFsResp
    /\ vec = [a \in AccountIds |-> 0]
    /\ call = NoCall
    /\ ret = NoCall
    /\ \E max_events \in 0 .. MaxEvents : collector = NewCollector(TRUE, max_events)
    /\ made = NoneMade
    /\ workers = [t \in Threads |-> IdleWorker]
    /\ context = << >>
    /\ recorder = << >>

NextShared ==
    \/ \E t \in Threads, name \in EventNames : Begin(t, "event", name, 0)
    \/ \E t \in Threads, key \in CounterKeys, delta \in Deltas :
          Begin(t, "count", key, delta)
    \/ \E t \in Threads, key \in GaugeKeys, value \in GaugeValues :
          Begin(t, "set", key, value)
    \/ \E t \in Threads : Enter(t)
    \/ \E t \in Threads : Leave(t)

SpecShared == InitShared /\ [][NextShared]_vars

(* The calls of one kind that were made and have not yet left. *)
InFlight(op) == {t \in Threads : workers[t].pc # "idle" /\ workers[t].op = op}

(* The sum of the deltas of the count() calls on key that have not left. *)
InFlightDelta(key) ==
    LET sum[S \in SUBSET Threads] ==
            IF S = {} THEN 0
            ELSE LET t == CHOOSE x \in S : TRUE
                 IN (IF t \in InFlight("count") /\ workers[t].key = key
                     THEN workers[t].value ELSE 0) + sum[S \ {t}]
    IN sum[Threads]

(* C17: under any interleaving of event(), count() and set() calls made    *)
(* concurrently on one shared enabled collector no update is lost: the     *)
(* stored events plus dropped_events count every event() call that has     *)
(* returned, the stored events never exceed max_events, and every counter  *)
(* is the sum of the deltas of the count() calls that have returned.       *)
C17_NoLostUpdate ==
    /\ Len(collector.events) <= collector.max_events
    /\ Len(collector.events) + collector.dropped_events
          + Cardinality(InFlight("event")) = Len(made.events)
    /\ \A key \in CounterKeys :
          collector.counters[key] + InFlightDelta(key) = made.deltas[key]

(* Two threads are in event() at once on a full collector that has already *)
(* dropped an event and counted: one holds the lock, the other waits.      *)
C17_Witness ==
    /\ \E t \in Threads, u \in Threads :
          /\ workers[t].pc = "inside" /\ workers[t].op = "event" /\ workers[t].full
          /\ workers[u].pc = "waiting" /\ workers[u].op = "event"
    /\ collector.dropped_events >= 1
    /\ \E key \in CounterKeys : collector.counters[key] >= 2

-----------------------------------------------------------------------------
(* The context variable _TRACE_COLLECTOR (openviking/trace/context.py).    *)
(* Every request runs in its own asyncio task, and a task has its own      *)
(* context: a ContextVar holds one value per context, set() returns a      *)
(* token with the value it replaced, and reset(token) puts that back.      *)
(* A collector is named by the task and the nesting depth that made it.    *)

MaxDepth == 2

Tasks == 1 .. 2

(* _NOOP_COLLECTOR, the variable's default (lines 13-17) *)
NoopCollector == <<0, 0>>

(* No get_trace_collector() call since the task last bound or unbound. *)
NotAsked == <<0, 1>>

ContextOfShared(t) == 1

(* The context a task runs in: its own. *)
ContextOf(t) == t

(* get_trace_collector(): the value in the caller's context, or the default *)
GetTraceCollector(t) ==
    IF context[ContextOf(t)] = {} THEN NoopCollector
    ELSE CHOOSE c \in context[ContextOf(t)] : TRUE

(* bind_trace_collector(collector), up to the yield (line 28): the handler *)
(* has made a new collector and enters the with block.                     *)
Bind(t) ==
    /\ Len(workers[t].tokens) < MaxDepth
    /\ LET c == <<t, Len(workers[t].tokens) + 1>>
       IN /\ context' = [context EXCEPT ![ContextOf(t)] = {c}]
          /\ workers' = [workers EXCEPT ![t].tokens = Append(@, context[ContextOf(t)]),
                                        ![t].got = NotAsked,
                                        ![t].left = "no"]
          /\ made' = [made EXCEPT ![t] = Append(@, c)]
    /\ UNCHANGED <<traceFrame, ret, collector, recorder>>

(* Code inside or outside a with block asks for the collector; got is the  *)
(* answer to the last call made since the task bound or unbound.           *)
Get(t) ==
    /\ workers' = [workers EXCEPT ![t].got = GetTraceCollector(t)]
    /\ UNCHANGED <<traceFrame, ret, collector, made, context, recorder>>

(* The with block is left, by its end or by an exception: the finally      *)
(* clause resets the variable with the token (lines 31-32), and an         *)
(* exception goes on to the caller.                                        *)
Unbind(t, how) ==
    /\ workers[t].tokens # << >>
    /\ LET token == workers[t].tokens[Len(workers[t].tokens)]
       IN context' = [context EXCEPT ![ContextOf(t)] = token]
    /\ workers' = [workers EXCEPT
                      ![t].tokens = SubSeq(@, 1, Len(@) - 1),
                      ![t].got = NotAsked,
                      ![t].left = how]
    /\ made' = [made EXCEPT ![t] = SubSeq(@, 1, Len(@) - 1)]
    /\ UNCHANGED <<traceFrame, ret, collector, recorder>>

InitContext ==
    /\ InitManager
    /\ fs = EmptyDict
    /\ fsResp = NoFsResp
    /\ vec = [a \in AccountIds |-> 0]
    /\ call = NoCall
    /\ ret = NoCall
    /\ collector = << >>
    /\ recorder = << >>
    /\ context = [t \in Tasks |-> {}]
    /\ workers = [t \in Tasks |-> [tokens |-> << >>, got |-> NotAsked,
                                   left |-> "no"]]
    /\ made = [t \in Tasks |-> << >>]

NextContext ==
    \/ \E t \in Tasks : Bind(t)
    \/ \E t \in Tasks : Get(t)
    \/ \E t \in Tasks, how \in {"normal", "exception"} : Unbind(t, how)

SpecContext == InitContext /\ [][NextContext]_vars

(* The collector of the innermost with block a task is in, or the no-op    *)
(* collector when it is in none.                                           *)
InnermostBound(t) ==
    IF made[t] = << >> THEN NoopCollector ELSE made[t][Len(made[t])]

(* C18: in every task get_trace_collector() returns the collector of the   *)
(* innermost bind_trace_collector block the task is in; after a block is   *)
(* left, normally or by exception, that is the collector bound before it   *)
(* (the disabled no-op collector when there was none), also under nesting; *)
(* and a task is never given a collector that another task bound.          *)
C18_ContextBinding ==
    \A t \in Tasks :
        /\ GetTraceCollector(t) = InnermostBound(t)
        /\ workers[t].got \in {NotAsked, InnermostBound(t)}

(* One task left its inner block by an exception and reads its outer       *)
(* collector again while the other task is inside a block of its own.      *)
C18_Witness ==
    \E t \in Tasks, u \in Tasks :
        /\ t # u
        /\ workers[t].left = "exception"
        /\ Len(made[t]) = 1
        /\ workers[t].got = <<t, 1>>
        /\ Len(made[u]) = 2

-----------------------------------------------------------------------------
(* IORecorder (openviking/eval/recorder/__init__.py).  The record file is  *)
(* a sequence of chunks: a JSON line reaches the file in two writes, the   *)
(* second ending with the newline.  A record's timestamp is modelled by    *)
(* the serial number of the call that made it.                             *)

IOTypes == {"fs", "vikingdb"}

NewRecorder(enabled) == [enabled |-> enabled, lock |-> 0, file |-> << >>]

NoCalls == [calls |-> 0, done |-> << >>]

(* IORecorder._serialize_response: bytes become {"__bytes__": text},       *)
(* None, strings and lists of strings stay as they are.                    *)
SerializeResponse(response) ==
    {IF v.kind = "bytes" THEN [kind |-> "dict", text |-> v.text] ELSE v : v \in response}

(* The IORecord that record_fs / record_vikingdb build (lines 258-268,     *)
(* 293-303).                                                               *)
RecordOf(io_type, operation, response, success, error) ==
    [timestamp |-> made.calls + 1, io_type |-> io_type, operation |-> operation,
     response |-> SerializeResponse(response), success |-> success, error |-> error]

(* json.dumps(record.to_dict()) + "\n" as the two chunks of one line *)
LineOf(record) == <<[record |-> record, part |-> 1], [record |-> record, part |-> 2]>>

Lines(records) ==
    LET flat[n \in 0 .. Len(records)] ==
            IF n = 0 THEN << >> ELSE flat[n - 1] \o LineOf(records[n])
    IN flat[Len(records)]

FileLockFreeAlways(r) == TRUE

(* threading.Lock _file_lock: acquire succeeds only when no thread holds it *)
FileLockFree(r) == r.lock = 0

(* A thread calls record_fs or record_vikingdb: the record is built, and   *)
(* _write_record returns at once when the recorder is disabled.            *)
RecordBegin(t, io_type, operation) ==
    /\ workers[t].pc = "idle"
    /\ made.calls < MaxCalls
    /\ made' = [made EXCEPT !.calls = @ + 1]
    /\ workers' = IF recorder.enabled
                  THEN [workers EXCEPT ![t] =
                          [pc |-> "waiting",
                           record |-> RecordOf(io_type, operation, {}, TRUE, {})]]
                  ELSE workers
    /\ UNCHANGED <<traceFrame, ret, collector, context, recorder>>

(* with self._file_lock, open(..., "a") and the first part of the line *)
WriteEnter(t) ==
    /\ workers[t].pc = "waiting"
    /\ FileLockFree(recorder)
    /\ recorder' = [recorder EXCEPT !.lock = t,
                       !.file = Append(@, LineOf(workers[t].record)[1])]
    /\ workers' = [workers EXCEPT ![t].pc = "inside"]
    /\ UNCHANGED <<traceFrame, ret, collector, context, made>>

(* The rest of the line with its newline; the file is closed and the lock  *)
(* released.                                                               *)
WriteLeave(t) ==
    /\ workers[t].pc = "inside"
    /\ recorder' = [recorder EXCEPT !.lock = 0,
                       !.file = Append(@, LineOf(workers[t].record)[2])]
    /\ workers' = [workers EXCEPT ![t] = IdleWorker]
    /\ made' = [made EXCEPT !.done = Append(@, workers[t].record)]
    /\ UNCHANGED <<traceFrame, ret, collector, context>>

InitRecorder ==
    /\ InitManager
    /\ fs = EmptyDict
    /\ fsResp = NoFsResp
    /\ vec = [a \in AccountIds |-> 0]
    /\ call = NoCall
    /\ ret = NoCall
    /\ collector = << >>
    /\ context = << >>
    /\ \E enabled \in BOOLEAN : recorder = NewRecorder(enabled)
    /\ workers = [t \in Threads |-> IdleWorker]
    /\ made = NoCalls

NextRecorder ==
    \/ \E t \in Threads : RecordBegin(t, "fs", "read")
    \/ \E t \in Threads : RecordBegin(t, "vikingdb", "search")
    \/ \E t \in Threads : WriteEnter(t)
    \/ \E t \in Threads : WriteLeave(t)

SpecRecorder == InitRecorder /\ [][NextRecorder]_vars

(* The threads whose call has not returned, and the part of a line that a  *)
(* thread inside _write_record has written so far.                         *)
Recording == {t \in Threads : workers[t].pc # "idle"}

Begun(t) == <<LineOf(workers[t].record)[1]>>

(* C19: under concurrent record_fs and record_vikingdb calls on an enabled *)
(* recorder the record file is the complete lines of the calls that have   *)
(* returned, one per call in the order they were written, followed by at   *)
(* most the beginning of the line being written: no call is lost, no line  *)
(* is torn or interleaved with another, and a line once written stays.     *)
C19_ThreadSafeAppend ==
    recorder.enabled =>
        /\ Len(made.done) + Cardinality(Recording) = made.calls
        /\ \A i \in 1 .. Len(made.done), j \in 1 .. Len(made.done) :
              made.done[i].timestamp = made.done[j].timestamp => i = j
        /\ \/ recorder.file = Lines(made.done)
           \/ \E t \in Threads :
                 /\ workers[t].pc = "inside"
                 /\ recorder.file = Lines(made.done) \o Begun(t)

(* One thread is in the middle of its line while the other waits for the   *)
(* lock, after two lines of different kinds were written.                  *)
C19_Witness ==
    /\ recorder.enabled
    /\ \E t \in Threads, u \in Threads :
          workers[t].pc = "inside" /\ workers[u].pc = "waiting"
    /\ Len(made.done) = 2
    /\ made.done[1].io_type # made.done[2].io_type

-----------------------------------------------------------------------------
(* The recording wrappers RecordingVikingFS and RecordingVikingDB          *)
(* (openviking/storage/recorder/wrapper.py) and the context manager        *)
(* RecordContext, used by one caller.  The wrapped operation returns its   *)
(* result or raises; asyncio.CancelledError, which an awaited operation    *)
(* raises when its task is cancelled, is a BaseException and no Exception. *)

Exceptions == {[class |-> "Exception", message |-> "File not found"],
               [class |-> "CancelledError", message |-> ""]}

Outcomes == {[kind |-> "returns"]} \cup {[kind |-> "raises", e |-> e] : e \in Exceptions}

IsBaseException(e) == TRUE

(* except Exception as e: whether the clause catches e *)
IsException(e) == e.class = "Exception"

(* str(e) *)
Str(e) == e.message

(* What the wrapped operation returns: read gives bytes, insert an id. *)
ResultOf(operation) ==
    IF operation = "read" THEN [kind |-> "bytes", text |-> "content"]
    ELSE [kind |-> "str", text |-> "id-1"]

(* IORecorder._write_record with no other thread about: the whole line is  *)
(* appended, or nothing when the recorder is disabled.                     *)
WriteRecord(r, record) ==
    IF r.enabled THEN [r EXCEPT !.file = @ \o LineOf(record)] ELSE r

(* RecordingVikingFS.read and RecordingVikingDB.insert, as every method of *)
(* the two wrappers: try, await the operation, record and return; except   *)
(* Exception, record the failure and raise.                                *)
WrappedCall(io_type, operation, outcome) ==
    /\ made.calls < MaxCalls
    /\ made' = [made EXCEPT !.calls = @ + 1]
    /\ call' = [fn |-> "wrapped", via |-> "wrapper", io_type |-> io_type,
                operation |-> operation, outcome |-> outcome]
    /\ IF outcome.kind = "returns"
       THEN /\ recorder' = WriteRecord(recorder,
                              RecordOf(io_type, operation, {ResultOf(operation)}, TRUE, {}))
            /\ ret' = [kind |-> "returned", value |-> ResultOf(operation)]
       ELSE /\ recorder' = IF IsException(outcome.e)
                           THEN WriteRecord(recorder,
                                   RecordOf(io_type, operation, {}, FALSE,
                                            {Str(outcome.e)}))
                           ELSE recorder
            /\ ret' = [kind |-> "raised", value |-> outcome.e]
    /\ UNCHANGED <<mgrVars, now, fs, fsResp, vec, resp, collector, workers, context>>

(* with RecordContext(recorder, io_type, operation, request) as r: the     *)
(* body runs the operation and calls r.set_response(result); __exit__      *)
(* records for every exception type and returns False.                     *)
ContextCall(io_type, operation, outcome) ==
    /\ made.calls < MaxCalls
    /\ made' = [made EXCEPT !.calls = @ + 1]
    /\ call' = [fn |-> "wrapped", via |-> "context", io_type |-> io_type,
                operation |-> operation, outcome |-> outcome]
    /\ IF outcome.kind = "returns"
       THEN /\ recorder' = WriteRecord(recorder,
                              RecordOf(io_type, operation, {ResultOf(operation)}, TRUE, {}))
            /\ ret' = [kind |-> "returned", value |-> ResultOf(operation)]
       ELSE /\ recorder' = WriteRecord(recorder,
                              RecordOf(io_type, operation, {}, FALSE, {Str(outcome.e)}))
            /\ ret' = [kind |-> "raised", value |-> outcome.e]
    /\ UNCHANGED <<mgrVars, now, fs, fsResp, vec, resp, collector, workers, context>>

InitWrapper ==
    /\ InitManager
    /\ fs = EmptyDict
    /\ fsResp = NoFsResp
    /\ vec = [a \in AccountIds |-> 0]
    /\ call = NoCall
    /\ ret = NoCall
    /\ collector = << >>
    /\ context = << >>
    /\ workers = << >>
    /\ \E enabled \in BOOLEAN : recorder = NewRecorder(enabled)
    /\ made = NoCalls

NextWrapper ==
    \/ \E outcome \in Outcomes : WrappedCall("fs", "read", outcome)
    \/ \E outcome \in Outcomes : WrappedCall("vikingdb", "insert", outcome)
    \/ \E outcome \in Outcomes : ContextCall("fs", "read", outcome)

SpecWrapper == InitWrapper /\ [][NextWrapper]_vars

(* A call through a wrapper or a RecordContext with an enabled recorder. *)
RecordedCall == made'.calls = made.calls + 1 /\ call'.fn = "wrapped" /\ recorder.enabled

(* What the call appended to the record file. *)
Added == SubSeq(recorder'.file, Len(recorder.file) + 1, Len(recorder'.file))

(* The call appended exactly one line, a record with the given outcome. *)
OneRecord(success, error, response) ==
    /\ Len(Added) = 2
    /\ Added = LineOf(Added[1].record)
    /\ Added[1].record.io_type = call'.io_type
    /\ Added[1].record.operation = call'.operation
    /\ Added[1].record.success = success
    /\ Added[1].record.error = error
    /\ Added[1].record.response = response

Returned ==
    /\ OneRecord(TRUE, {}, SerializeResponse({ResultOf(call'.operation)}))
    /\ ret' = [kind |-> "returned", value |-> ResultOf(call'.operation)]

Raised ==
    /\ OneRecord(FALSE, {call'.outcome.e.message}, {})
    /\ ret' = [kind |-> "raised", value |-> call'.outcome.e]

-----------------------------------------------------------------------------
(* The asynchronous record writer (openviking/storage/recorder/            *)
(* async_writer.py, AsyncRecordWriter).  write_record puts a record on a   *)
(* queue; a background thread appends queued records to the file, at most  *)
(* batch_size at a time, when a batch is full, when flush_interval has     *)
(* passed since its last write, or when stop was called; stop() returns    *)
(* after the thread has drained the queue.  A record is named by its       *)
(* serial number.                                                          *)

MaxBatch == 2
MaxInterval == 2

NewWriter(batch_size, flush_interval) ==
    [batch_size |-> batch_size, flush_interval |-> flush_interval, queue |-> << >>,
     file |-> << >>, elapsed |-> 0, stopping |-> FALSE, stopped |-> FALSE]

(* What writing leaves alone. *)
writerFrame == <<traceFrame, ret, collector, workers, context>>

(* AsyncRecordWriter.write_record *)
Submit ==
    /\ ~recorder.stopping
    /\ made.calls < MaxCalls
    /\ recorder' = [recorder EXCEPT !.queue = Append(@, made.calls + 1)]
    /\ made' = [made EXCEPT !.calls = @ + 1, !.done = Append(@, made.calls + 1)]
    /\ UNCHANGED writerFrame

(* Time passes without a write. *)
Wait ==
    /\ ~recorder.stopped
    /\ recorder.elapsed < recorder.flush_interval
    /\ recorder' = [recorder EXCEPT !.elapsed = @ + 1]
    /\ UNCHANGED <<writerFrame, made>>

(* The background thread writes one batch. *)
Flush ==
    /\ recorder.queue # << >>
    /\ \/ Len(recorder.queue) >= recorder.batch_size
       \/ recorder.elapsed >= recorder.flush_interval
       \/ recorder.stopping
    /\ LET n == Min(Len(recorder.queue), recorder.batch_size)
       IN recorder' = [recorder EXCEPT
                          !.file = @ \o SubSeq(recorder.queue, 1, n),
                          !.queue = SubSeq(@, n + 1, Len(@)),
                          !.elapsed = 0]
    /\ UNCHANGED <<writerFrame, made>>

(* stop() is called. *)
Stop ==
    /\ ~recorder.stopping
    /\ recorder' = [recorder EXCEPT !.stopping = TRUE]
    /\ UNCHANGED <<writerFrame, made>>

StopReturnsAtOnce ==
    /\ recorder.stopping /\ ~recorder.stopped
    /\ recorder' = [recorder EXCEPT !.stopped = TRUE]
    /\ UNCHANGED <<writerFrame, made>>

(* stop() returns: the background thread has drained the queue and ended. *)
StopReturns ==
    /\ recorder.stopping /\ ~recorder.stopped
    /\ recorder.queue = << >>
    /\ recorder' = [recorder EXCEPT !.stopped = TRUE]
    /\ UNCHANGED <<writerFrame, made>>

InitWriter ==
    /\ InitManager
    /\ fs = EmptyDict
    /\ fsResp = NoFsResp
    /\ vec = [a \in AccountIds |-> 0]
    /\ call = NoCall
    /\ ret = NoCall
    /\ collector = << >>
    /\ context = << >>
    /\ workers = << >>
    /\ \E batch_size \in 1 .. MaxBatch, flush_interval \in 1 .. MaxInterval :
          recorder = NewWriter(batch_size, flush_interval)
    /\ made = NoCalls

NextWriter ==
    \/ Submit
    \/ Wait
    \/ Flush
    \/ Stop
    \/ StopReturns

SpecWriter == InitWriter /\ [][NextWriter]_vars

LowerWord(w) ==
    CASE w = "No" -> "no"
      [] w = "Permission" -> "permission"
      [] w = "Not" -> "not"
      [] OTHER -> w

(* str.lower *)
Lower(s) == [i \in DOMAIN s |-> LowerWord(s[i])]

(* pattern in text *)
Occurs(pattern, text) ==
    \E i \in 0..(Len(text) - Len(pattern)) :
        \A j \in 1..Len(pattern) : text[i + j] = pattern[j]

(* error_type_patterns of IOPlayback._errors_match *)
error_type_patterns ==
    [no_such_file |-> {<<"no", "such", "file">>, <<"not", "found">>,
                       <<"does", "not", "exist">>,
                       <<"no", "such", "file", "or", "directory">>},
     not_a_directory |-> {<<"not", "a", "directory">>, <<"not", "directory">>},
     is_a_directory |-> {<<"is", "a", "directory">>, <<"is", "directory">>},
     permission_denied |-> {<<"permission", "denied">>, <<"access", "denied">>},
     already_exists |-> {<<"already", "exists">>, <<"file", "exists">>,
                         <<"directory", "already", "exists">>},
     directory_not_empty |-> {<<"directory", "not", "empty">>,
                              <<"not", "empty">>},
     connection_refused |-> {<<"connection", "refused">>,
                             <<"server", "not", "running">>},
     timeout |-> {<<"timeout">>, <<"timed", "out">>},
     failed_to_stat |-> {<<"failed", "to", "stat">>, <<"stat", "failed">>}]

(* IOPlayback._errors_match *)
ErrorsMatch(playback_error, record_error) ==
    LET p == Lower(playback_error)
        r == Lower(record_error)
    IN \/ p = r
       \/ \E t \in DOMAIN error_type_patterns :
              /\ \E x \in error_type_patterns[t] : Occurs(x, p)
              /\ \E y \in error_type_patterns[t] : Occurs(y, r)

ErrorMessages ==
    {<<"No", "such", "file">>, <<"no", "such", "file">>,
     <<"path", "not", "found">>, <<"Permission", "denied">>,
     <<"directory", "not", "empty">>, <<"disk", "full">>}

Responses == {"old", "new"}

(* The records a recorder writes: a call that returned has success true,  *)
(* a response and no error; a call that raised has success false, no      *)
(* response and str(e) as error (wrapper.py, the _record call sites).     *)
PlayableRecords ==
    {[io_type |-> t, operation |-> "read", response |-> {v},
      success |-> TRUE, error |-> {}] : t \in IOTypes, v \in Responses}
    \cup
    {[io_type |-> t, operation |-> "read", response |-> {},
      success |-> FALSE, error |-> {e}] : t \in IOTypes, e \in ErrorMessages}

(* What re-issuing the operation does: it returns a value or raises. *)
ReplayOutcomes ==
    {[raised |-> FALSE, value |-> {v}, message |-> {}] : v \in Responses}
    \cup
    {[raised |-> TRUE, value |-> {}, message |-> {e}] : e \in ErrorMessages}

(* IOPlayback._play_fs_operation / _play_vikingdb_operation: the part     *)
(* after the operation has been re-issued.                                 *)
PlayOperation(record, replay) ==
    IF ~replay.raised
    THEN [played |-> TRUE, playback_success |-> TRUE, playback_error |-> {}]
    ELSE LET e == CHOOSE m \in replay.message : TRUE
         IN IF record.error # {}
               /\ ErrorsMatch(e, CHOOSE m \in record.error : TRUE)
            THEN [played |-> TRUE, playback_success |-> TRUE,
                  playback_error |-> {<<"Matched", "original", "error:">> \o e}]
            ELSE [played |-> TRUE, playback_success |-> FALSE,
                  playback_error |-> {e}]

(* IOPlayback.play_record *)
PlayRecordResult(record, replay, enable_fs, enable_vikingdb) ==
    IF record.io_type = "fs" /\ ~enable_fs
    THEN [played |-> FALSE, playback_success |-> TRUE, playback_error |-> {}]
    ELSE IF record.io_type = "vikingdb" /\ ~enable_vikingdb
    THEN [played |-> FALSE, playback_success |-> TRUE, playback_error |-> {}]
    ELSE PlayOperation(record, replay)

PlayRecordCalls ==
    {[fn |-> "play_record", record |-> r, replay |-> o,
      enable_fs |-> f, enable_vikingdb |-> d] :
        r \in PlayableRecords, o \in ReplayOutcomes,
        f \in BOOLEAN, d \in BOOLEAN}

PlayRecord ==
    /\ call.fn = "play_record"
    /\ ret = Pending
    /\ ret' = PlayRecordResult(call.record, call.replay, call.enable_fs,
                               call.enable_vikingdb)
    /\ UNCHANGED <<mgrVars, now, fs, fsResp, vec, call, resp, obsVars>>

InitPlayRecord ==
    /\ InitManager
    /\ InitStorage
    /\ call \in PlayRecordCalls
    /\ ret = Pending

NextPlayRecord == PlayRecord

SpecPlayRecord == InitPlayRecord /\ [][NextPlayRecord]_vars

Replayed == call.fn = "play_record" /\ ret # Pending /\ ret.played

SameResponse ==
    /\ call.record.success
    /\ ~call.replay.raised
    /\ call.replay.value = call.record.response

BothFailedAlike ==
    /\ call.record.error # {}
    /\ call.replay.raised
    /\ ErrorsMatch(CHOOSE m \in call.replay.message : TRUE,
                   CHOOSE m \in call.record.error : TRUE)

(* C22 as stated: a replayed record is reported successful exactly when    *)
(* the replay's response equals the recorded response, or both calls       *)
(* failed with error messages that match under the equivalence table.      *)
C22_PlaybackSuccessClaim ==
    Replayed => (ret.playback_success <=> (SameResponse \/ BothFailedAlike))

(* What the code does: a replay that returns is successful whatever it    *)
(* returned; a replay that raises is successful exactly when the record    *)
(* holds an error that matches.                                            *)
C22_PlaybackSuccessCode ==
    Replayed =>
        (ret.playback_success <=> (~call.replay.raised \/ BothFailedAlike))

C22_DifferentResponse ==
    /\ Replayed
    /\ call.record.success
    /\ ~call.replay.raised
    /\ call.replay.value # call.record.response
    /\ ret.playback_success

(***************************************************************************)
(* Record, then replay: the request a recording wrapper writes             *)
(* (wrapper.py) and the call the player makes from it (playback.py).       *)
(* A dict is a function from its keys; a path or URI string is its kind    *)
(* ("uri" for viking://..., "abs" for /..., "rel" otherwise) and segments. *)
(***************************************************************************)
MaxRecords == 2

(* dict.get(key, default) *)
DictGet(d, key, default) == IF key \in DOMAIN d THEN d[key] ELSE default

PathStr(kind, segs) == [kind |-> kind, segs |-> segs]

(* IOPlayback._path_to_uri *)
PlayerPathToUri(path) ==
    IF path.kind = "uri" THEN path
    ELSE IF path.kind = "abs" /\ Len(path.segs) >= 2 /\ path.segs[1] = "local"
    THEN PathStr("uri", Tail(path.segs))
    ELSE PathStr("uri", path.segs)

ReplayUris == {PathStr("uri", << >>), PathStr("uri", <<"resources", "a">>)}

Bytes(text) == [kind |-> "bytes", text |-> text]

(* The calls made through RecordingVikingFS and RecordingVikingDB, each    *)
(* with its bound arguments.                                               *)
WrapperCalls ==
    {[io_type |-> "fs", operation |-> "read",
      arguments |-> [uri |-> u, offset |-> o, size |-> s]] :
        u \in ReplayUris, o \in {0, 1}, s \in {-1, 4}}
    \cup
    {[io_type |-> "fs", operation |-> "write",
      arguments |-> [uri |-> u, data |-> d]] :
        u \in ReplayUris, d \in {Bytes(""), Bytes("hello")}}
    \cup
    {[io_type |-> "fs", operation |-> "rm",
      arguments |-> [uri |-> u, recursive |-> r]] :
        u \in ReplayUris, r \in BOOLEAN}
    \cup
    {[io_type |-> "fs", operation |-> "grep",
      arguments |-> [uri |-> u, pattern |-> p, case_insensitive |-> FALSE]] :
        u \in ReplayUris, p \in {"", "TODO"}}
    \cup
    {[io_type |-> "vikingdb", operation |-> "delete",
      arguments |-> [collection |-> "context", ids |-> i]] :
        i \in {<<"id1">>, <<"id1", "id2">>}}
    \cup
    {[io_type |-> "vikingdb", operation |-> "filter",
      arguments |-> [collection |-> "context", filter |-> f,
                     limit |-> 10, offset |-> 0]] :
        f \in {[account_id |-> "acme"], [account_id |-> "default"]}}

(* The request dict each wrapper method builds (wrapper.py lines 63, 77,   *)
(* 133, 161, 327, 395): write leaves the data out.                         *)
RequestOf(operation, a) ==
    CASE operation = "read" ->
            [uri |-> a.uri, offset |-> a.offset, size |-> a.size]
      [] operation = "write" -> [uri |-> a.uri]
      [] operation = "rm" -> [uri |-> a.uri, recursive |-> a.recursive]
      [] operation = "grep" ->
            [uri |-> a.uri, pattern |-> a.pattern,
             case_insensitive |-> a.case_insensitive]
      [] operation = "delete" -> [collection |-> a.collection, ids |-> a.ids]
      [] operation = "filter" ->
            [collection |-> a.collection, filter |-> a.filter,
             limit |-> a.limit, offset |-> a.offset]

(* IORecorder.record_fs / record_vikingdb for a call that returned; the    *)
(* request holds strings, numbers, booleans, lists and dicts of those,     *)
(* which _serialize_response returns as they are (lines 219-224).         *)
RequestRecord(io_type, operation, request) ==
    [io_type |-> io_type, operation |-> operation, request |-> request,
     success |-> TRUE, error |-> {}]

(* IOPlayback._play_fs_operation and _play_vikingdb_operation: the call    *)
(* made on the target backend.                                             *)
Reissue(record) ==
    LET request == record.request
        args == DictGet(request, "args", << >>)
        kwargs == DictGet(request, "kwargs", EmptyDict)
        path(default) ==
            IF args # << >> THEN args[1]
            ELSE DictGet(kwargs, "path", DictGet(kwargs, "uri", default))
        arg(i, key, default) ==
            IF Len(args) > i THEN args[i + 1] ELSE DictGet(kwargs, key, default)
        data == arg(1, "data", Bytes(""))
    IN IF record.io_type = "fs"
       THEN CASE record.operation = "read" ->
                    [target |-> "viking_fs", operation |-> "read", args |-> << >>,
                     kwargs |-> [uri |-> PlayerPathToUri(path(PathStr("rel", << >>))),
                                 offset |-> arg(1, "offset", 0),
                                 size |-> arg(2, "size", -1)]]
              [] record.operation = "write" ->
                    [target |-> "viking_fs", operation |-> "write", args |-> << >>,
                     kwargs |-> [uri |-> PlayerPathToUri(path(PathStr("rel", << >>))),
                                 data |-> IF data.kind = "dict"
                                          THEN Bytes(data.text) ELSE data]]
              [] record.operation = "rm" ->
                    [target |-> "viking_fs", operation |-> "rm", args |-> << >>,
                     kwargs |-> [uri |-> PlayerPathToUri(path(PathStr("rel", << >>))),
                                 recursive |-> arg(1, "recursive", FALSE)]]
              [] record.operation = "grep" ->
                    [target |-> "viking_fs", operation |-> "grep", args |-> << >>,
                     kwargs |-> [uri |-> PlayerPathToUri(path(PathStr("abs", << >>))),
                                 pattern |-> arg(1, "pattern", "")]]
              [] OTHER ->
                    [target |-> "ValueError", operation |-> record.operation,
                     args |-> << >>, kwargs |-> EmptyDict]
       ELSE IF record.operation \in {"delete", "filter"}
            THEN [target |-> "vector_store", operation |-> record.operation,
                  args |-> args, kwargs |-> kwargs]
            ELSE [target |-> "ValueError", operation |-> record.operation,
                  args |-> << >>, kwargs |-> EmptyDict]

(* A call through a recording wrapper on an enabled recorder. *)
WrapperRecords(c) ==
    /\ Len(recorder.file) < MaxRecords
    /\ recorder' = [recorder EXCEPT !.file =
           Append(@, RequestRecord(c.io_type, c.operation,
                                   RequestOf(c.operation, c.arguments)))]
    /\ made' = [calls |-> made.calls + 1, done |-> Append(made.done, c)]
    /\ UNCHANGED <<traceFrame, ret, collector, workers, context>>

(* IOPlayback.play reaches the next record of the file and re-issues it. *)
PlayNext ==
    /\ Len(ret) < Len(recorder.file)
    /\ ret' = Append(ret, Reissue(recorder.file[Len(ret) + 1]))
    /\ UNCHANGED <<traceFrame, recorder, made, collector, workers, context>>

InitReplay ==
    /\ InitManager
    /\ fs = EmptyDict
    /\ fsResp = NoFsResp
    /\ vec = [a \in AccountIds |-> 0]
    /\ call = NoCall
    /\ ret = << >>
    /\ collector = << >>
    /\ workers = << >>
    /\ context = << >>
    /\ made = NoCalls
    /\ recorder = NewRecorder(TRUE)

NextReplay == (\E c \in WrapperCalls : WrapperRecords(c)) \/ PlayNext

SpecReplay == InitReplay /\ [][NextReplay]_vars

(* The arguments the claim names. *)
ReplayedArguments ==
    {"uri", "offset", "size", "data", "recursive", "pattern", "collection",
     "ids", "filter"}

(* The value the re-issued call passes for a named argument, if any; the   *)
(* player passes keyword arguments to the FS and the recorded args and     *)
(* kwargs to the vector store.                                             *)
PassedArgument(reissued, name) ==
    IF name \in DOMAIN reissued.kwargs THEN {reissued.kwargs[name]} ELSE {}

SameCall(original, reissued) ==
    /\ reissued.operation = original.operation
    /\ reissued.target = (IF original.io_type = "fs" THEN "viking_fs"
                          ELSE "vector_store")
    /\ \A name \in ReplayedArguments \cap DOMAIN original.arguments :
           PassedArgument(reissued, name) = {original.arguments[name]}

(* C23 as stated: every record written by RecordingVikingFS or             *)
(* RecordingVikingDB is re-issued by the player as the same operation with *)
(* the same arguments (URI, offset, size, written data, recursive flag,    *)
(* pattern, collection, ids, filter).                                      *)
C23_ReplaySameCall ==
    \A i \in 1..Len(ret) : SameCall(made.done[i], ret[i])

C23_ArgumentsLost ==
    /\ Len(ret) >= 1
    /\ made.done[1].operation = "read"
    /\ made.done[1].arguments.uri = PathStr("uri", <<"resources", "a">>)
    /\ ret[1].kwargs.uri = PathStr("uri", << >>)

(***************************************************************************)
(* Reading a record file: IORecorder.get_records, load_records,            *)
(* get_record_stats and IOPlayback.play.  The file is the sequence of      *)
(* chunks written to it; the chunk with part 2 ends its line.              *)
(***************************************************************************)
Readers == {"get_records", "load_records", "get_record_stats", "play"}

(* for line in f: the lines of the file, the last one possibly unended *)
SplitLines(file) ==
    LET f[n \in 0 .. Len(file)] ==
            IF n = 0 THEN [done |-> << >>, cur |-> << >>]
            ELSE LET p == f[n - 1]
                     c == file[n]
                 IN IF c.part = 2
                    THEN [done |-> Append(p.done, Append(p.cur, c)), cur |-> << >>]
                    ELSE [done |-> p.done, cur |-> Append(p.cur, c)]
        all == f[Len(file)]
    IN all.done \o (IF all.cur # << >> THEN <<all.cur>> ELSE << >>)

(* json.loads(line) returns for the text of one whole record and raises    *)
(* JSONDecodeError for anything else.                                      *)
LoadsOk(line) ==
    /\ Len(line) = 2
    /\ line[1].part = 1
    /\ line[2].part = 2
    /\ line[1].record = line[2].record

(* records.append(IORecord.from_dict(json.loads(line))) for every line,    *)
(* with no exception handler around it.                                    *)
ReadLines(file) ==
    LET lines == SplitLines(file)
    IN IF \E i \in DOMAIN lines : ~LoadsOk(lines[i])
       THEN [kind |-> "raised", records |-> << >>]
       ELSE [kind |-> "returned",
             records |-> [i \in DOMAIN lines |-> lines[i][1].record]]

(* IORecorder._write_record appends one whole line. *)
AppendRecord(io_type, operation) ==
    /\ FileLockFree(recorder)
    /\ made.calls < MaxRecords
    /\ LET record == RecordOf(io_type, operation, {}, TRUE, {})
       IN /\ recorder' = [recorder EXCEPT !.file = @ \o LineOf(record)]
          /\ made' = [calls |-> made.calls + 1, done |-> Append(made.done, record)]
    /\ call' = NoCall
    /\ ret' = Pending
    /\ UNCHANGED <<mgrVars, now, fs, fsResp, vec, resp, collector, workers, context>>

(* The writing process is killed inside f.write: the first part of the     *)
(* line has reached the file, the rest and the newline have not, and the   *)
(* writer appends nothing more.                                            *)
WriterKilled(io_type, operation) ==
    /\ FileLockFree(recorder)
    /\ LET record == RecordOf(io_type, operation, {}, TRUE, {})
       IN recorder' = [recorder EXCEPT !.file = Append(@, LineOf(record)[1]),
                                       !.lock = 1]
    /\ call' = NoCall
    /\ ret' = Pending
    /\ UNCHANGED <<mgrVars, now, fs, fsResp, vec, resp, made, collector, workers, context>>

(* One of the four readers reads the file. *)
ReadFile(fn) ==
    /\ ret = Pending
    /\ call' = [fn |-> fn]
    /\ ret' = ReadLines(recorder.file)
    /\ UNCHANGED <<mgrVars, now, fs, fsResp, vec, resp, recorder, made, collector, workers, context>>

InitReaders ==
    /\ InitManager
    /\ fs = EmptyDict
    /\ fsResp = NoFsResp
    /\ vec = [a \in AccountIds |-> 0]
    /\ call = NoCall
    /\ ret = Pending
    /\ collector = << >>
    /\ workers = << >>
    /\ context = << >>
    /\ made = NoCalls
    /\ recorder = NewRecorder(TRUE)

NextReaders ==
    \/ \E t \in IOTypes, op \in {"read", "write"} : AppendRecord(t, op)
    \/ \E t \in IOTypes, op \in {"read", "write"} : WriterKilled(t, op)
    \/ \E fn \in Readers : ReadFile(fn)

SpecReaders == InitReaders /\ [][NextReaders]_vars

TrailingPartialLine ==
    /\ recorder.file # << >>
    /\ recorder.file[Len(recorder.file)].part = 1

(* C24 as stated: a record file whose last line is partial is read by      *)
(* get_records, load_records, get_record_stats and play as the complete    *)
(* records before that line, without raising.                              *)
C24_TrailingPartialTolerated ==
    (call \in [fn : Readers] /\ TrailingPartialLine) =>
        (ret.kind = "returned" /\ ret.records = made.done)

C24_ReaderRaises ==
    /\ call \in [fn : Readers]
    /\ TrailingPartialLine
    /\ Len(made.done) = MaxRecords
    /\ ret.kind = "raised"

(***************************************************************************)
(* IOPlayback.play: selection of the records, the replay loop and the      *)
(* statistics it returns.                                                  *)
(***************************************************************************)
PlayOperations == {"read", "write"}

FileRecords == [io_type : IOTypes, operation : PlayOperations]

RECURSIVE SeqsUpTo(_, _)
SeqsUpTo(S, n) ==
    IF n = 0 THEN {<< >>}
    ELSE LET shorter == SeqsUpTo(S, n - 1)
         IN shorter \cup {Append(s, x) : s \in shorter, x \in S}

(* filtered_records: the io_type and operation filters (None is the empty  *)
(* set) and the enabled backends.                                          *)
Selected(r, io_type, operation, enable_fs, enable_vikingdb) ==
    /\ io_type = {} \/ r.io_type \in io_type
    /\ operation = {} \/ r.operation \in operation
    /\ ~(r.io_type = "fs" /\ ~enable_fs)
    /\ ~(r.io_type = "vikingdb" /\ ~enable_vikingdb)

(* filtered_records[offset:], then [:limit] when limit is truthy *)
Slice(records, offset, limit) ==
    LET rest == SubSeq(records, offset + 1, Len(records))
    IN IF limit # 0 THEN SubSeq(rest, 1, Min(limit, Len(rest))) ELSE rest

(* PlaybackStats(total_records=len(records)) *)
NewStats(total_records) ==
    [total_records |-> total_records, success_count |-> 0, error_count |-> 0,
     fs_stats |-> EmptyDict, vikingdb_stats |-> EmptyDict]

(* stats[op_key]["count"] += 1, the entry created with count 0 if absent *)
CountOp(d, op_key) ==
    [k \in DOMAIN d \cup {op_key} |->
        (IF k \in DOMAIN d THEN d[k] ELSE 0) + (IF k = op_key THEN 1 ELSE 0)]

RECURSIVE SumCounts(_)
SumCounts(d) ==
    IF DOMAIN d = {} THEN 0
    ELSE LET k == CHOOSE x \in DOMAIN d : TRUE
         IN d[k] + SumCounts([x \in DOMAIN d \ {k} |-> d[x]])

(* play() up to the loop: the records to replay and the fresh statistics. *)
PlayBegin(limit, offset, io_type, operation, enable_fs, enable_vikingdb, fail_fast) ==
    /\ call = NoCall
    /\ LET filtered == SelectSeq(recorder.file,
                          LAMBDA r : Selected(r, io_type, operation,
                                              enable_fs, enable_vikingdb))
           records == Slice(filtered, offset, limit)
       IN /\ call' = [fn |-> "play", records |-> records, i |-> 0,
                      fail_fast |-> fail_fast,
                      pc |-> IF records = << >> THEN "returned" ELSE "loop"]
          /\ ret' = NewStats(Len(records))
    /\ UNCHANGED <<mgrVars, now, fs, fsResp, vec, resp, obsVars>>

(* The loop stops at the first failure when fail_fast is set. *)
BreaksOnFailure(fail_fast, playback_success) == fail_fast /\ ~playback_success

(* One turn of the loop: play_record returns with playback_success, the    *)
(* counters are updated, and the loop ends at the last record or at the    *)
(* fail_fast break; play() returns the stats when the loop ends.           *)
PlayStep(playback_success) ==
    /\ call.fn = "play"
    /\ call.pc = "loop"
    /\ LET record == call.records[call.i + 1]
           op_key == <<record.io_type, record.operation>>
           counted == IF playback_success
                      THEN [ret EXCEPT !.success_count = @ + 1]
                      ELSE [ret EXCEPT !.error_count = @ + 1]
       IN /\ ret' = IF record.io_type = "fs"
                    THEN [counted EXCEPT !.fs_stats = CountOp(@, op_key)]
                    ELSE [counted EXCEPT !.vikingdb_stats = CountOp(@, op_key)]
          /\ call' = [call EXCEPT
                        !.i = @ + 1,
                        !.pc = IF \/ BreaksOnFailure(call.fail_fast, playback_success)
                                  \/ call.i + 1 = Len(call.records)
                               THEN "returned" ELSE "loop"]
    /\ UNCHANGED <<mgrVars, now, fs, fsResp, vec, resp, obsVars>>

InitPlay ==
    /\ InitManager
    /\ fs = EmptyDict
    /\ fsResp = NoFsResp
    /\ vec = [a \in AccountIds |-> 0]
    /\ call = NoCall
    /\ ret = Pending
    /\ collector = << >>
    /\ workers = << >>
    /\ context = << >>
    /\ made = NoCalls
    /\ \E file \in SeqsUpTo(FileRecords, MaxRecords) :
           recorder = [NewRecorder(TRUE) EXCEPT !.file = file]

NextPlay ==
    \/ \E limit \in 0 .. MaxRecords, offset \in 0 .. 1,
          io_type \in {{}, {"fs"}}, operation \in {{}, {"read"}},
          enable_fs \in BOOLEAN, enable_vikingdb \in BOOLEAN, fail_fast \in BOOLEAN :
          PlayBegin(limit, offset, io_type, operation, enable_fs, enable_vikingdb,
                    fail_fast)
    \/ \E playback_success \in BOOLEAN : PlayStep(playback_success)

SpecPlay == InitPlay /\ [][NextPlay]_vars

PlayReturned == call.fn = "play" /\ call.pc = "returned"

(* C25 as stated: for every play() run, with any io_type and operation     *)
(* filters, offset, limit and fail_fast, the returned statistics satisfy   *)
(* success_count + error_count = total_records = the sum of the            *)
(* per-operation counts.                                                   *)
C25_StatsAddUp ==
    PlayReturned =>
        /\ ret.success_count + ret.error_count = ret.total_records
        /\ ret.total_records = SumCounts(ret.fs_stats) + SumCounts(ret.vikingdb_stats)

C25_StoppedEarly ==
    /\ PlayReturned
    /\ call.fail_fast
    /\ ret.error_count = 1
    /\ ret.total_records = MaxRecords
    /\ ret.success_count + ret.error_count < ret.total_records

(***************************************************************************)
(* The URI/path mapping of VikingFS and its inverse, on strings told apart *)
(* by their kind: "uri" for viking://..., "abs" for /....                  *)
(***************************************************************************)
(* VikingFS._uri_to_path on a URI string *)
UriToPathStr(uri, account_id) == PathStr("abs", UriToPath(uri.segs, account_id))

(* The variant of the inverse that keeps the account segment. *)
PathToUriKeepsAccount(path, account_id) ==
    IF path.kind = "uri" THEN path
    ELSE PathStr("uri", Tail(path.segs))

(* VikingFS._path_to_uri: a URI passes through; otherwise /local is        *)
(* stripped, then the account segment when an account is given and the     *)
(* path lies under it.                                                     *)
PathToUri(path, account_id) ==
    IF path.kind = "uri" THEN path
    ELSE LET inner == Tail(path.segs)
         IN IF account_id # "" /\ inner # << >> /\ inner[1] = account_id
            THEN PathStr("uri", Tail(inner))
            ELSE PathStr("uri", inner)

MappingAccounts == {""} \cup AccountIds

BackendPaths ==
    {PathStr("abs", <<"local">> \o rest) :
        rest \in {<< >>, <<"resources">>, <<"acme">>, <<"acme", "resources", "foo.txt">>,
                  <<"_system", "accounts.json">>, <<"local", "x">>}}

RoundTripCalls ==
    {[fn |-> "round_trip", start |-> PathStr("uri", u), account_id |-> a] :
        u \in FsUris, a \in MappingAccounts}
    \cup
    {[fn |-> "round_trip", start |-> p, account_id |-> a] :
        p \in BackendPaths, a \in MappingAccounts}

NotMapped == [steps |-> 0, value |-> PathStr("none", << >>)]

Current == IF ret.steps = 0 THEN call.start ELSE ret.value

(* uri_to_path(uri, account_id) applied to the URI at hand *)
MapToPath ==
    /\ call.fn = "round_trip"
    /\ ret.steps < 2
    /\ Current.kind = "uri"
    /\ ret' = [steps |-> ret.steps + 1,
               value |-> UriToPathStr(Current, call.account_id)]
    /\ UNCHANGED <<mgrVars, now, fs, fsResp, vec, call, resp, obsVars>>

(* path_to_uri(path, account_id) applied to the path at hand *)
MapToUri ==
    /\ call.fn = "round_trip"
    /\ ret.steps < 2
    /\ Current.kind = "abs"
    /\ ret' = [steps |-> ret.steps + 1,
               value |-> PathToUri(Current, call.account_id)]
    /\ UNCHANGED <<mgrVars, now, fs, fsResp, vec, call, resp, obsVars>>

InitMapping ==
    /\ InitManager
    /\ InitStorage
    /\ call \in RoundTripCalls
    /\ ret = NotMapped

NextMapping == MapToPath \/ MapToUri

SpecMapping == InitMapping /\ [][NextMapping]_vars

Range(s) == {s[i] : i \in DOMAIN s}

(* The owner_space condition of a tenant filter, as a set *)
OwnerSpaces(filter) == Range(filter.conds[2].conds)

MaxCount == 3
MaxStamp == 3

RECURSIVE Pow2(_)
Pow2(n) == IF n <= 0 THEN 1 ELSE 2 * Pow2(n - 1)

(* The variant without the max(..., 0.0) *)
AgeUnclamped(at, updated_at) == at - updated_at

(* age_days = max((now - updated_at).total_seconds() / 86400.0, 0.0) *)
AgeDays(at, updated_at) == IF at - updated_at > 0 THEN at - updated_at ELSE 0

(* hotness_score(active_count, updated_at, now); updated_at None is {} *)
hotness_score(active_count, updated_at, at) ==
    IF updated_at = {} THEN [num |-> 0, den |-> 1]
    ELSE LET age == AgeDays(at, CHOOSE u \in updated_at : TRUE)
         IN [num |-> (1 + active_count) * Pow2(0 - age),
             den |-> (2 + active_count) * Pow2(age)]

Less(a, b) == a.num * b.den < b.num * a.den

Same(a, b) == a.num * b.den = b.num * a.den

(* One call of hotness_score with now = call.now; the results of two calls *)
(* are kept for comparison.                                                *)
Score(active_count, updated_at) ==
    /\ call.fn = "hotness_score"
    /\ Len(ret) < 2
    /\ ret' = Append(ret, [active_count |-> active_count, updated_at |-> updated_at,
                           score |-> hotness_score(active_count, updated_at, call.now)])
    /\ UNCHANGED <<mgrVars, now, fs, fsResp, vec, call, resp, obsVars>>

InitHotness ==
    /\ InitManager
    /\ InitStorage
    /\ call \in [fn : {"hotness_score"}, now : 0 .. MaxStamp]
    /\ ret = << >>

NextHotness ==
    \E active_count \in 0 .. MaxCount,
       updated_at \in {{}} \cup {{u} : u \in 0 .. MaxStamp} :
        Score(active_count, updated_at)

SpecHotness == InitHotness /\ [][NextHotness]_vars

Scored == IF call.fn = "hotness_score" THEN Range(ret) ELSE {}

Stamp(r) == CHOOSE u \in r.updated_at : TRUE

MaxChildren == 2

(* The dict {} *)
EmptyFilter == [op |-> "empty"]

NoneExpr == [type |-> "None"]
EqExpr(field, value) == [type |-> "Eq", field |-> field, value |-> value]
RawDSLExpr(payload) == [type |-> "RawDSL", payload |-> payload]
NodeExpr(type, conds) == [type |-> type, conds |-> conds]

LeafExprs ==
    {NoneExpr, EqExpr("context_type", "memory"), RawDSLExpr(EmptyFilter),
     RawDSLExpr(Must("uri", <<"viking://resources">>))}

(* And / Or nodes over leaves, with up to MaxChildren children *)
FlatNodes ==
    {NodeExpr(t, conds) : t \in {"And", "Or"}, conds \in SeqsUpTo(LeafExprs, MaxChildren)}

(* And / Or nodes with a node among their children *)
NestedNodes ==
    {NodeExpr(t, conds) :
        t \in {"And", "Or"},
        conds \in {<<x>> : x \in FlatNodes}
                  \cup {<<x, y>> : x \in LeafExprs, y \in FlatNodes}
                  \cup {<<x, y>> : x \in FlatNodes, y \in LeafExprs}}

FilterExprs == LeafExprs \cup FlatNodes \cup NestedNodes

(* The variant that wraps a single condition as well. *)
CombineAlways(op, conds) ==
    IF conds = << >> THEN EmptyFilter ELSE [op |-> op, conds |-> conds]

(* if not conds: return {}; if len(conds) == 1: return conds[0];           *)
(* return {"op": op, "conds": conds}                                       *)
Combine(op, conds) ==
    IF conds = << >> THEN EmptyFilter
    ELSE IF Len(conds) = 1 THEN conds[1]
    ELSE [op |-> op, conds |-> conds]

RECURSIVE compile_expr(_)
compile_expr(expr) ==
    CASE expr.type = "None" -> EmptyFilter
      [] expr.type = "RawDSL" -> expr.payload
      [] expr.type \in {"And", "Or"} ->
            LET present == SelectSeq(expr.conds, LAMBDA c : c # NoneExpr)
                compiled == [i \in DOMAIN present |-> compile_expr(present[i])]
                conds == SelectSeq(compiled, LAMBDA c : c # EmptyFilter)
            IN Combine(IF expr.type = "And" THEN "and" ELSE "or", conds)
      [] expr.type = "Eq" -> Must(expr.field, <<expr.value>>)

(* One call of compile_expr on the expression at hand. *)
CompileExpr ==
    /\ call.fn = "compile_expr"
    /\ Len(ret) < 2
    /\ ret' = Append(ret, compile_expr(call.expr))
    /\ UNCHANGED <<mgrVars, now, fs, fsResp, vec, call, resp, obsVars>>

InitCompile ==
    /\ InitManager
    /\ InitStorage
    /\ call \in [fn : {"compile_expr"}, expr : FilterExprs]
    /\ ret = << >>

NextCompile == CompileExpr

SpecCompile == InitCompile /\ [][NextCompile]_vars

(* The non-empty compilations of a node's children, in their order *)
ChildFilters(expr) ==
    SelectSeq([i \in DOMAIN expr.conds |-> compile_expr(expr.conds[i])],
              LAMBDA c : c # EmptyFilter)

(* C29: compile_expr(None), and And / Or with no children or with only     *)
(* children that compile to the empty filter, give the empty filter; And / *)
(* Or with exactly one non-empty child compiles to that child's            *)
(* compilation; otherwise the node holds the non-empty compilations of its *)
(* children in their original order; compiling the same expression twice   *)
(* gives the same result.                                                  *)
C29_CompileExpr ==
    call.fn = "compile_expr" =>
        \A i \in DOMAIN ret :
            /\ ret[i] = ret[1]
            /\ call.expr = NoneExpr => ret[i] = EmptyFilter
            /\ call.expr.type \in {"And", "Or"} =>
                  LET kept == ChildFilters(call.expr)
                  IN /\ kept = << >> => ret[i] = EmptyFilter
                     /\ Len(kept) = 1 => ret[i] = kept[1]
                     /\ Len(kept) > 1 =>
                           /\ ret[i].op = (IF call.expr.type = "And" THEN "and" ELSE "or")
                           /\ ret[i].conds = kept

C29_Witness ==
    /\ call.fn = "compile_expr"
    /\ Len(ret) = 2
    /\ call.expr = NodeExpr("And",
                       <<NodeExpr("Or", <<EqExpr("context_type", "memory"), NoneExpr>>),
                         RawDSLExpr(EmptyFilter)>>)
    /\ ret[2] = Must("context_type", <<"memory">>)

(***************************************************************************)
(* ContextSemanticSearchGateway.increment_active_count: per URI, an        *)
(* awaited read of the record followed by an awaited update that writes    *)
(* the value read plus one.  Tasks of one event loop interleave at the     *)
(* awaits.                                                                 *)
(***************************************************************************)
CountedUris == {"viking://resources/foo", "viking://resources/missing"}

ExistingUri == "viking://resources/foo"

NotIncrementing == [pc |-> "idle", current |-> 0]

(* int(record.get("active_count", 0) or 0): {} is an absent or None field *)
AsCount(active_count) ==
    IF active_count = {} THEN 0 ELSE CHOOSE n \in active_count : TRUE

InFlightIncrements == {t \in Threads : workers[t].pc # "idle"}

(* get_context_by_uri returns: no record ends the call with updated = 0,   *)
(* a record gives the value to write.                                      *)
IncrementRead(t, uri) ==
    /\ workers[t].pc = "idle"
    /\ made.calls < MaxCalls
    /\ IF uri = ExistingUri
       THEN /\ workers' = [workers EXCEPT ![t] =
                   [pc |-> "read", current |-> AsCount(vec.active_count)]]
            /\ made' = [made EXCEPT !.calls = @ + 1]
       ELSE /\ made' = [calls |-> made.calls + 1,
                        done |-> Append(made.done, [uri |-> uri, updated |-> 0])]
            /\ UNCHANGED workers
    /\ UNCHANGED <<mgrVars, now, fs, fsResp, vec, call, ret, resp, collector, context,
                   recorder>>

(* {"active_count": current + 1} *)
WrittenCount(t) == workers[t].current + 1

(* storage.update writes the count and the call returns updated = 1. *)
IncrementWrite(t) ==
    /\ workers[t].pc = "read"
    /\ vec' = [vec EXCEPT !.active_count = {WrittenCount(t)}]
    /\ workers' = [workers EXCEPT ![t] = NotIncrementing]
    /\ made' = [made EXCEPT !.done = Append(@, [uri |-> ExistingUri, updated |-> 1])]
    /\ UNCHANGED <<mgrVars, now, fs, fsResp, call, ret, resp, collector, context, recorder>>

InitIncrement ==
    /\ InitManager
    /\ fs = EmptyDict
    /\ fsResp = NoFsResp
    /\ \E active_count \in {{}, {0}, {1}} :
           vec = [active_count |-> active_count, initial |-> AsCount(active_count)]
    /\ call = NoCall
    /\ ret = NoCall
    /\ collector = << >>
    /\ context = << >>
    /\ recorder = << >>
    /\ workers = [t \in Threads |-> NotIncrementing]
    /\ made = NoCalls

NextIncrement ==
    \/ \E t \in Threads, uri \in CountedUris : IncrementRead(t, uri)
    \/ \E t \in Threads : IncrementWrite(t)

SpecIncrement == InitIncrement /\ [][NextIncrement]_vars

(* The number of completed calls that named the existing URI *)
CompletedIncrements == Len(SelectSeq(made.done, LAMBDA d : d.uri = ExistingUri))

(* C30 as stated: the stored active_count never decreases, and after k     *)
(* completed increment_active_count calls naming an existing URI, calls    *)
(* whose read and write steps interleave included, it equals its initial   *)
(* value plus k.                                                           *)
C30_CountsEveryIncrement ==
    [][/\ AsCount(vec'.active_count) >= AsCount(vec.active_count)
       /\ AsCount(vec'.active_count) = vec'.initial + CompletedIncrements']_vars

C30_LostIncrement ==
    /\ InFlightIncrements = {}
    /\ CompletedIncrements = 2
    /\ AsCount(vec.active_count) = vec.initial + 1

(***************************************************************************)
(* The register-user and set-role endpoints with the role string taken     *)
(* from the request body (RegisterUserRequest.role, SetRoleRequest.role):  *)
(* the handlers pass it to the key manager as it is.                       *)
(***************************************************************************)
BodyRoles == RoleStrings \cup {"root"}

(* POST /accounts/{account_id}/users *)
HRegisterUserAs ==
    /\ Handling("register_user")
    /\ IF Refused(call.op, call.ctx, call.account) THEN Refuse(call.op, call.account)
       ELSE \E u \in UserIds, r \in BodyRoles : RegisterUser(call.account, u, r)

(* PUT /accounts/{account_id}/users/{user_id}/role *)
HSetUserRoleTo ==
    /\ Handling("set_role")
    /\ IF Refused(call.op, call.ctx, call.account) THEN Refuse(call.op, call.account)
       ELSE \E u \in UserIds, r \in BodyRoles : SetRole(call.account, u, r)

RoleRequests ==
    {req \in AdminRequests : req.op \in {"create_account", "register_user", "set_role"}}

NextRoles ==
    \/ \E req \in RoleRequests : Arrive(req)
    \/ HCreateAccount
    \/ HRegisterUserAs
    \/ HSetUserRoleTo
    \/ \E k \in PresentedKeys : ResolveReq(k)

SpecRoles == Init /\ [][NextRoles]_vars

(* C31 as stated: resolve(k) returns role ROOT only when k is the          *)
(* configured root key; no sequence of requests to the admin endpoints,    *)
(* register_user and set_role with any role string by an ADMIN or ROOT     *)
(* caller included, makes a user key resolve to ROOT.                      *)
C31_RootOnlyByRootKey ==
    \A k \in PresentedKeys : Resolve(k).role = "root" => k = RootKey

C31_AdminMadeRoot ==
    /\ call.fn = "admin"
    /\ call.op = "register_user"
    /\ call.ctx.role = "admin"
    /\ resp.op = "register_user"
    /\ resp.result = "ok"
    /\ resp.key # RootKey
    /\ Resolve(resp.key).role = "root"

(***************************************************************************)
(* The key index against the user registries, and failing calls.           *)
(***************************************************************************)
(* The index entry a registered user should have *)
EntryOf(account_id, user_id) ==
    [account_id |-> account_id, user_id |-> user_id,
     role |-> accounts[account_id][user_id].role]

(* C32 as stated: after any sequence of create_account, delete_account,    *)
(* register_user, remove_user, set_role and regenerate_key calls,          *)
(* successful or failing, the key index holds exactly one entry per user   *)
(* of an existing account, keyed by the user's current key and carrying    *)
(* the user's account_id, user_id and current registry role; no entry      *)
(* refers to a removed user or a deleted account, and no registered user   *)
(* is without an entry.                                                    *)
C32_IndexMatchesRegistry ==
    /\ \A a \in DOMAIN accounts : \A u \in DOMAIN accounts[a] :
           /\ accounts[a][u].key \in DOMAIN user_keys
           /\ user_keys[accounts[a][u].key] = EntryOf(a, u)
    /\ \A k \in DOMAIN user_keys :
           /\ user_keys[k].account_id \in DOMAIN accounts
           /\ user_keys[k].user_id \in DOMAIN accounts[user_keys[k].account_id]
           /\ accounts[user_keys[k].account_id][user_keys[k].user_id].key = k

C32_UserWithoutEntry ==
    /\ resp.op = "register_user"
    /\ resp.result = "ValueError"
    /\ resp.user \in DOMAIN accounts[resp.account]
    /\ accounts[resp.account][resp.user].key \notin DOMAIN user_keys

(* C33 as stated: register_user and set_role called with a role string     *)
(* that is not a valid Role fail and leave the account's in-memory user    *)
(* registry, the key index and the persisted users file as they were.      *)
C33_InvalidRoleChangesNothing ==
    [][(resp'.op \in {"register_user", "set_role"} /\ resp'.role \notin ValidRoles
          /\ resp'.result \notin {"NotFound", "AlreadyExists"}) =>
         /\ resp'.result = "ValueError"
         /\ accounts' = accounts
         /\ user_keys' = user_keys
         /\ users_json' = users_json
      ]_vars

C33_RegistryChanged ==
    /\ resp.op = "set_role"
    /\ resp.result = "ValueError"
    /\ accounts[resp.account][resp.user].role = "bogus"
    /\ user_keys[accounts[resp.account][resp.user].key].role # "bogus"

(***************************************************************************)
(* The tenant-scoped searches of ContextSemanticSearchGateway: the filter  *)
(* each one sends to storage, and the records that filter selects.         *)
(***************************************************************************)
OrOf(conds) == [op |-> "or", field |-> "", conds |-> conds]

(* The variant that joins the filters with "or". *)
MergeFiltersAny(filters) ==
    LET non_empty == SelectSeq(filters, LAMBDA f : f # NoFilter)
    IN IF non_empty = << >> THEN NoFilter
       ELSE IF Len(non_empty) = 1 THEN non_empty[1]
       ELSE OrOf(non_empty)

(* ContextSemanticSearchGateway._merge_filters *)
MergeFilters(filters) ==
    LET non_empty == SelectSeq(filters, LAMBDA f : f # NoFilter)
    IN IF non_empty = << >> THEN NoFilter
       ELSE IF Len(non_empty) = 1 THEN non_empty[1]
       ELSE AndOf(non_empty)

(* ContextSemanticSearchGateway._build_scope_filter; context_type "" and   *)
(* an empty target_directories list are false as None is.                  *)
BuildScopeFilter(ctx, context_type, target_directories, extra_filter_dsl) ==
    LET type_filter == IF context_type # ""
                       THEN <<Must("context_type", <<context_type>>)>> ELSE << >>
        tenant_filter == TenantFilter(ctx, context_type)
        dirs == SelectSeq(target_directories, LAMBDA d : d # "")
        uri_conds == [i \in DOMAIN dirs |-> Must("uri", <<dirs[i]>>)]
        uri_filter == IF uri_conds # << >> THEN <<OrOf(uri_conds)>> ELSE << >>
    IN MergeFilters(type_filter \o <<tenant_filter>> \o uri_filter \o <<extra_filter_dsl>>)

(* The filter DSL as the vector store applies it to one record *)
RECURSIVE Matches(_, _)
Matches(filter, record) ==
    CASE filter.op = "none" -> TRUE
      [] filter.op = "must" -> record[filter.field] \in Range(filter.conds)
      [] filter.op = "and" ->
            \A i \in DOMAIN filter.conds : Matches(filter.conds[i], record)
      [] filter.op = "or" ->
            \E i \in DOMAIN filter.conds : Matches(filter.conds[i], record)

ContextRecord(account_id, owner_space, uri, parent_uri, context_type, level) ==
    [account_id |-> account_id, owner_space |-> owner_space, uri |-> uri,
     parent_uri |-> parent_uri, context_type |-> context_type, level |-> level]

StoredContexts ==
    {ContextRecord(a, "", "viking://resources/doc", "viking://resources", "resource", "2") :
        a \in AccountIds}
    \cup
    {ContextRecord(a, UserSpaceName(u), "viking://user/memories/m1", "viking://user/memories",
                   "memory", "0") : a \in AccountIds, u \in UserIds}

SearchContexts ==
    {Ctx("acme", "alice", "agent1", "user"), Ctx("default", "bob", "agent2", "user"),
     Ctx("acme", "alice", "agent1", "admin"), Ctx("default", "alice", "agent1", "root")}

TargetDirectories == {<< >>, <<"viking://resources">>, <<"", "viking://user/memories">>}

(* extra_filter_dsl as a caller may pass it: none, a level condition, or   *)
(* an "or" that names another account.                                     *)
ExtraFilters ==
    {NoFilter, Must("level", <<"2">>),
     OrOf(<<Must("account_id", <<"default">>), Must("account_id", <<"acme">>)>>)}

SearchFns == {"search_in_tenant", "search_global_roots_in_tenant",
              "search_children_in_tenant"}

(* The filter argument of the storage.search call each method makes *)
SentFilter(fn, ctx, parent_uri, context_type, target_directories, extra_filter_dsl) ==
    LET scope == BuildScopeFilter(ctx, context_type, target_directories, extra_filter_dsl)
    IN CASE fn = "search_in_tenant" -> scope
         [] fn = "search_global_roots_in_tenant" ->
               MergeFilters(<<scope, Must("level", <<"0", "1">>)>>)
         [] fn = "search_children_in_tenant" ->
               MergeFilters(<<Must("parent_uri", <<parent_uri>>), scope>>)

(* One search call; search_global_roots_in_tenant returns [] without a     *)
(* storage call when the query vector is empty.                            *)
Search(fn, ctx, has_vector, parent_uri, context_type, target_directories, extra_filter_dsl) ==
    /\ call' = [fn |-> fn, ctx |-> ctx, context_type |-> context_type]
    /\ IF fn = "search_global_roots_in_tenant" /\ ~has_vector
       THEN ret' = [sent |-> FALSE, filter |-> NoFilter, records |-> {}]
       ELSE LET filter == SentFilter(fn, ctx, parent_uri, context_type,
                                     target_directories, extra_filter_dsl)
            IN ret' = [sent |-> TRUE, filter |-> filter,
                       records |-> {r \in vec : Matches(filter, r)}]
    /\ UNCHANGED <<mgrVars, now, fs, fsResp, vec, resp, obsVars>>

InitSearch ==
    /\ InitManager
    /\ fs = EmptyDict
    /\ fsResp = NoFsResp
    /\ InitIdle
    /\ vec = StoredContexts
    /\ call = NoCall
    /\ ret = Pending

NextSearch ==
    \E fn \in SearchFns, ctx \in SearchContexts, has_vector \in BOOLEAN,
       parent_uri \in {"viking://resources", "viking://user/memories"},
       context_type \in ContextTypes, target_directories \in TargetDirectories,
       extra_filter_dsl \in ExtraFilters :
        Search(fn, ctx, has_vector, parent_uri, context_type, target_directories,
               extra_filter_dsl)

SpecSearch == InitSearch /\ [][NextSearch]_vars

(* The conditions a filter requires together: those reached from its root  *)
(* through "and" nodes only.                                               *)
RECURSIVE Conjuncts(_)
Conjuncts(filter) ==
    IF filter.op = "and"
    THEN UNION {Conjuncts(filter.conds[i]) : i \in DOMAIN filter.conds}
    ELSE {filter}

OwnerSpaceConds(ctx) == {c \in [op : {"must"}, field : {"owner_space"},
                               conds : {<<UserSpaceName(ctx.user),
                                          AgentSpaceName(ctx.user, ctx.agent)>>,
                                        <<UserSpaceName(ctx.user),
                                          AgentSpaceName(ctx.user, ctx.agent), "">>}] : TRUE}

(* C34: every filter that search_in_tenant, search_global_roots_in_tenant  *)
(* and search_children_in_tenant send to storage for a non-ROOT context    *)
(* is a conjunction that requires account_id = ctx.account_id and the      *)
(* caller's owner_space restriction, whatever context_type,                *)
(* target_directories, parent_uri and extra filter are supplied; so no     *)
(* returned record belongs to another account.                             *)
C34_SearchIsTenantScoped ==
    (call.fn \in SearchFns /\ ret.sent /\ call.ctx.role # "root") =>
        /\ Must("account_id", <<call.ctx.account>>) \in Conjuncts(ret.filter)
        /\ Conjuncts(ret.filter) \cap OwnerSpaceConds(call.ctx) # {}
        /\ \A r \in ret.records :
               /\ r.account_id = call.ctx.account
               /\ r.owner_space \in {UserSpaceName(call.ctx.user),
                                     AgentSpaceName(call.ctx.user, call.ctx.agent), ""}

C34_Witness ==
    /\ call.fn = "search_children_in_tenant"
    /\ call.ctx = Ctx("acme", "alice", "agent1", "user")
    /\ ret.sent
    /\ Must("account_id", <<"acme">>) \notin Range(ret.filter.conds)
    /\ \E i \in DOMAIN ret.filter.conds : ret.filter.conds[i].op = "and"
    /\ ret.records # {}

(***************************************************************************)
(* ContextSemanticSearchGateway.delete_uris.  A URI is the sequence of its *)
(* "/"-separated segments after "viking://"; a trailing "/" is a last      *)
(* empty segment, so uri + "/" is Append(uri, "").                         *)
(***************************************************************************)
StartsWithSegment(uri, segment) == Len(uri) > 1 /\ uri[1] = segment

OwnedContexts ==
    {ContextRecord("acme", "", <<"resources", "doc">>, <<"resources">>, "resource", "2"),
     ContextRecord("acme", "us_alice", <<"user", "us_alice", "m1">>, <<"user", "us_alice">>,
                   "memory", "2"),
     ContextRecord("acme", "us_bob", <<"user", "us_bob", "m1">>, <<"user", "us_bob">>,
                   "memory", "2"),
     ContextRecord("acme", "as_bob_agent1", <<"agent", "as_bob_agent1", "k1">>,
                   <<"agent", "as_bob_agent1">>, "skill", "2"),
     ContextRecord("acme", "us_bob", <<"session", "us_bob", "s1">>,
                   <<"session", "us_bob">>, "session", "2"),
     ContextRecord("default", "us_bob", <<"session", "us_bob", "s1">>,
                   <<"session", "us_bob">>, "session", "2")}

DeleteContexts ==
    {Ctx("acme", "alice", "agent1", "user"), Ctx("acme", "bob", "agent1", "user"),
     Ctx("acme", "alice", "agent1", "admin"), Ctx("default", "alice", "agent1", "root")}

UriArguments ==
    {r.uri : r \in OwnedContexts} \cup {<<"user">>, <<"agent">>, <<"session">>}

UriLists ==
    {<<u>> : u \in UriArguments}
    \cup {<<u, v>> : u, v \in {<<"session", "us_bob", "s1">>, <<"user", "us_bob", "m1">>}}

(* The filter of the batch_delete made for one uri *)
DeleteFilter(ctx, uri) ==
    LET conds == <<Must("account_id", <<ctx.account>>),
                   OrOf(<<Must("uri", <<uri>>), Must("uri", <<Append(uri, "")>>)>>)>>
        scoped == /\ ctx.role = "user"
                  /\ StartsWithSegment(uri, "user") \/ StartsWithSegment(uri, "agent")
        owner_space == IF StartsWithSegment(uri, "user") THEN UserSpaceName(ctx.user)
                       ELSE AgentSpaceName(ctx.user, ctx.agent)
    IN AndOf(IF scoped THEN Append(conds, Must("owner_space", <<owner_space>>)) ELSE conds)

(* The records the loop over uris removes from stored *)
RECURSIVE Deleted(_, _, _)
Deleted(ctx, uris, stored) ==
    IF uris = << >> THEN {}
    ELSE LET gone == {r \in stored : Matches(DeleteFilter(ctx, Head(uris)), r)}
         IN gone \cup Deleted(ctx, Tail(uris), stored \ gone)

DeleteUris(ctx, uris) ==
    /\ call' = [fn |-> "delete_uris", ctx |-> ctx, uris |-> uris]
    /\ ret' = [deleted |-> Deleted(ctx, uris, vec)]
    /\ vec' = vec \ Deleted(ctx, uris, vec)
    /\ UNCHANGED <<mgrVars, now, fs, fsResp, resp, obsVars>>

InitDelete ==
    /\ InitManager
    /\ fs = EmptyDict
    /\ fsResp = NoFsResp
    /\ InitIdle
    /\ vec = OwnedContexts
    /\ call = NoCall
    /\ ret = Pending

NextDelete == \E ctx \in DeleteContexts, uris \in UriLists : DeleteUris(ctx, uris)

SpecDelete == InitDelete /\ [][NextDelete]_vars

(* C35: delete_uris called with a USER-role context deletes only records   *)
(* of the caller's account whose owner_space is the caller's user space,   *)
(* the caller's agent space or empty, whatever URIs it is given.           *)
C35_DeletesOnlyOwnRecords ==
    (call.fn = "delete_uris" /\ call.ctx.role = "user") =>
        \A r \in ret.deleted :
            /\ r.account_id = call.ctx.account
            /\ r.owner_space \in {UserSpaceName(call.ctx.user),
                                  AgentSpaceName(call.ctx.user, call.ctx.agent), ""}

(* A USER context has deleted a session record of another user's space *)
C35_ForeignSessionDeleted ==
    /\ call.fn = "delete_uris"
    /\ call.ctx = Ctx("acme", "alice", "agent1", "user")
    /\ \E r \in ret.deleted : r.owner_space = "us_bob" /\ r.uri[1] = "session"

(***************************************************************************)
(* The recording wrappers when the write of the record can itself fail:    *)
(* IORecorder._write_record opens the record file and writes with no       *)
(* exception handling, so an OSError of open or write leaves record_fs /   *)
(* record_vikingdb and _record, inside the wrapper method's try block.     *)
(***************************************************************************)
(* OSError is a subclass of Exception *)
OSError == [class |-> "Exception", message |-> "No space left on device"]

(* What each _write_record of one call does: the first is the one in the   *)
(* try block or the except clause, the second the one made in the except   *)
(* clause after the first raised.                                          *)
WriteOutcomes == [first : BOOLEAN, second : BOOLEAN]

(* _write_record raises: the recorder is enabled and the write fails *)
WriteRaises(r, ok) == r.enabled /\ ~ok

(* The file after a _write_record that raises appends nothing *)
TryWriteRecord(r, record, ok) == IF ok THEN WriteRecord(r, record) ELSE r

(* A method of RecordingVikingFS / RecordingVikingDB: try, await the       *)
(* operation, _record the result, return; except Exception as e, _record   *)
(* the failure with str(e), raise.                                         *)
RecordingCall(io_type, operation, outcome, writes) ==
    /\ made.calls < MaxCalls
    /\ made' = [made EXCEPT !.calls = @ + 1]
    /\ call' = [fn |-> "recording", io_type |-> io_type, operation |-> operation,
                outcome |-> outcome, writes |-> writes]
    /\ LET success == RecordOf(io_type, operation, {ResultOf(operation)}, TRUE, {})
           failure(e) == RecordOf(io_type, operation, {}, FALSE, {Str(e)})
       IN IF outcome.kind = "returns"
          THEN IF WriteRaises(recorder, writes.first)
               THEN (* the OSError is caught by except Exception *)
                    /\ recorder' = TryWriteRecord(recorder, failure(OSError), writes.second)
                    /\ ret' = [kind |-> "raised", value |-> OSError]
               ELSE /\ recorder' = TryWriteRecord(recorder, success, writes.first)
                    /\ ret' = [kind |-> "returned", value |-> ResultOf(operation)]
          ELSE IF IsException(outcome.e)
               THEN /\ recorder' = TryWriteRecord(recorder, failure(outcome.e), writes.first)
                    /\ ret' = [kind |-> "raised",
                               value |-> IF WriteRaises(recorder, writes.first)
                                         THEN OSError ELSE outcome.e]
               ELSE /\ recorder' = recorder
                    /\ ret' = [kind |-> "raised", value |-> outcome.e]
    /\ UNCHANGED <<mgrVars, now, fs, fsResp, vec, resp, collector, workers, context>>

NextRecording ==
    \/ \E outcome \in Outcomes, writes \in WriteOutcomes :
           RecordingCall("fs", "read", outcome, writes)
    \/ \E outcome \in Outcomes, writes \in WriteOutcomes :
           RecordingCall("vikingdb", "insert", outcome, writes)

SpecRecording == InitWrapper /\ [][NextRecording]_vars

(* C36: recording never changes the outcome of a wrapped call: the value   *)
(* returned or the exception raised to the caller is the one the backend   *)
(* produced, even when writing the record fails.                           *)
C36_OutcomeUnchanged ==
    call.fn = "recording" =>
        /\ call.outcome.kind = "returns" =>
               ret = [kind |-> "returned", value |-> ResultOf(call.operation)]
        /\ call.outcome.kind = "raises" =>
               ret = [kind |-> "raised", value |-> call.outcome.e]

(* The backend returned, the record write failed, the caller got OSError *)
C36_SuccessReportedAsFailure ==
    /\ call.fn = "recording"
    /\ call.outcome.kind = "returns"
    /\ ret = [kind |-> "raised", value |-> OSError]

(***************************************************************************)
(* The bot's agent loop (bot/vikingbot/agent/loop.py): one session, its    *)
(* messages numbered in the order they were added, the memory store's      *)
(* history, and the OpenViking session the message.compact hook commits    *)
(* to.  The bot state is the record held by made:                          *)
(*   messages  session.messages                                            *)
(*   added     the add_message calls made on the OpenViking session        *)
(*   commits   the number of its commit calls                              *)
(*   history   the messages whose consolidation ran to completion          *)
(*   turns     the number of messages processed                            *)
(***************************************************************************)
memory_window == 2
MaxTurns == 3

NewBot == [messages |-> << >>, added |-> << >>, commits |-> 0, history |-> {}, turns |-> 0]

(* What the consolidation's LLM call does: a JSON reply (its history_entry *)
(* and memory_update are stored when present), provider.chat raising,      *)
(* json.loads raising.                                                     *)
LlmOutcomes == {"ok", "chat_raises", "bad_json"}

Max(a, b) == IF a >= b THEN a ELSE b

(* messages[:-keep_count] and messages[-keep_count:] for keep_count > 0 *)
AllButLast(messages, keep_count) ==
    SubSeq(messages, 1, Max(Len(messages) - keep_count, 0))

Last(messages, keep_count) ==
    SubSeq(messages, Max(Len(messages) - keep_count, 0) + 1, Len(messages))

(* VikingClient.commit: add_message for every message given, then commit *)
Commit(b, messages) == [b EXCEPT !.added = @ \o messages, !.commits = @ + 1]

(* OpenVikingCompactHook.execute: commits session.messages; an exception   *)
(* (here: of creating the client) is logged and swallowed.                 *)
CompactHook(b, hook_ok) == IF hook_ok THEN Commit(b, b.messages) ELSE b

(* AgentLoop._consolidate_memory *)
ConsolidateMemory(b, archive_all, llm, hook_ok) ==
    IF b.messages = << >> THEN b
    ELSE LET hooked == CompactHook(b, hook_ok)
             keep_count == IF archive_all THEN 0
                           ELSE Min(10, Max(2, memory_window \div 2))
             old_messages == IF archive_all THEN b.messages
                             ELSE AllButLast(b.messages, keep_count)
             trimmed == IF keep_count # 0 THEN Last(b.messages, keep_count) ELSE << >>
         IN IF old_messages = << >> THEN hooked
            ELSE CASE llm = "ok" ->
                        [hooked EXCEPT !.history = @ \cup Range(old_messages),
                                       !.messages = trimmed]
                   [] OTHER -> hooked

(* Session.clear *)
SessionClear(b) == [b EXCEPT !.messages = << >>]

(* Session.add_message for the user's message and the assistant's reply *)
AddTurn(b) ==
    LET n == 2 * b.turns
    IN [b EXCEPT !.messages = @ \o <<n + 1, n + 2>>, !.turns = @ + 1]

(* AgentLoop._process_message for "/new" *)
ProcessNew(llm, hook_ok) ==
    /\ call' = [fn |-> "process_message", cmd |-> "/new", llm |-> llm]
    /\ made' = SessionClear(ConsolidateMemory(made, TRUE, llm, hook_ok))
    /\ ret' = [kind |-> "returned", value |-> "New session started. Memory consolidated."]
    /\ UNCHANGED <<mgrVars, now, fs, fsResp, vec, resp, collector, workers, context, recorder>>

(* AgentLoop._process_message for any other message *)
ProcessText(llm, hook_ok) ==
    /\ made.turns < MaxTurns
    /\ call' = [fn |-> "process_message", cmd |-> "text", llm |-> llm]
    /\ made' = AddTurn(IF Len(made.messages) > memory_window
                       THEN ConsolidateMemory(made, FALSE, llm, hook_ok)
                       ELSE made)
    /\ ret' = [kind |-> "returned", value |-> "reply"]
    /\ UNCHANGED <<mgrVars, now, fs, fsResp, vec, resp, collector, workers, context, recorder>>

InitBot ==
    /\ InitManager
    /\ fs = EmptyDict
    /\ fsResp = NoFsResp
    /\ vec = [a \in AccountIds |-> 0]
    /\ call = NoCall
    /\ ret = Pending
    /\ collector = << >>
    /\ workers = << >>
    /\ context = << >>
    /\ recorder = << >>
    /\ made = NewBot

NextBot ==
    \/ \E llm \in LlmOutcomes, hook_ok \in BOOLEAN : ProcessNew(llm, hook_ok)
    \/ \E llm \in LlmOutcomes, hook_ok \in BOOLEAN : ProcessText(llm, hook_ok)

SpecBot == InitBot /\ [][NextBot]_vars

(* C37: handling /new never discards session messages that were not       *)
(* archived: when the consolidation's LLM call or the parsing of its reply *)
(* raises, the session's messages are still present after the command, and *)
(* the session is emptied only after its messages were consolidated.       *)
C37_NewKeepsUnarchived ==
    [][(call'.fn = "process_message" /\ call'.cmd = "/new" /\ made.messages # << >>) =>
          /\ call'.llm \in {"chat_raises", "bad_json"} => made'.messages = made.messages
          /\ made'.messages = << >> => Range(made.messages) \subseteq made'.history
      ]_vars

(* /new emptied a session whose consolidation had failed *)
C37_MessagesDiscarded ==
    /\ call.fn = "process_message" /\ call.cmd = "/new"
    /\ call.llm = "bad_json"
    /\ made.turns > 0
    /\ made.messages = << >>
    /\ made.history = {}

(* C38: across successive memory consolidations of one bot session, each   *)
(* session message is added to the OpenViking session at most once.        *)
C38_AddedAtMostOnce ==
    \A i, j \in DOMAIN made.added : made.added[i] = made.added[j] => i = j

(* A message kept by one consolidation was added again by the next *)
C38_AddedTwice ==
    /\ made.commits = 2
    /\ \E i, j \in DOMAIN made.added : i < j /\ made.added[i] = made.added[j]

(***************************************************************************)
(* RequestTraceCollector.add_token_usage next to finish() on one enabled   *)
(* collector.  add_token_usage makes three count() calls, each of which    *)
(* takes and releases the lock on its own; finish() copies the counters    *)
(* under the lock.  A count() is one step here, as the lock makes it.      *)
(***************************************************************************)
TokenKeys == {"token.input_tokens", "token.output_tokens", "token.total_tokens"}
TokenCounts == {-1, 1, 2}

NoUsage == [pc |-> "idle", input_tokens |-> 0, output_tokens |-> 0]

Clamp(n) == IF n > 0 THEN n ELSE 0

(* TraceSummaryBuilder.build, the token_usage of the summary *)
TokenUsage(counters) ==
    [input_tokens |-> counters["token.input_tokens"],
     output_tokens |-> counters["token.output_tokens"],
     total_tokens |-> counters["token.total_tokens"]]

(* A thread enters add_token_usage on the enabled collector *)
AddTokenUsage(t, input_tokens, output_tokens) ==
    /\ workers[t].pc = "idle"
    /\ made.calls < MaxCalls
    /\ made' = [made EXCEPT !.calls = @ + 1]
    /\ workers' = [workers EXCEPT ![t] = [pc |-> "token.input_tokens",
                                          input_tokens |-> input_tokens,
                                          output_tokens |-> output_tokens]]
    /\ UNCHANGED <<traceFrame, ret, collector, context, recorder>>

(* The next of its three count() calls *)
CountTokens(t) ==
    /\ workers[t].pc \in TokenKeys
    /\ LET w == workers[t]
           delta == CASE w.pc = "token.input_tokens" -> Clamp(w.input_tokens)
                      [] w.pc = "token.output_tokens" -> Clamp(w.output_tokens)
                      [] w.pc = "token.total_tokens" ->
                            Clamp(w.input_tokens) + Clamp(w.output_tokens)
           next == CASE w.pc = "token.input_tokens" -> "token.output_tokens"
                     [] w.pc = "token.output_tokens" -> "token.total_tokens"
                     [] w.pc = "token.total_tokens" -> "idle"
       IN /\ collector' = [collector EXCEPT !.counters[w.pc] = @ + delta]
          /\ workers' = [workers EXCEPT ![t] = IF next = "idle" THEN NoUsage
                                               ELSE [w EXCEPT !.pc = next]]
    /\ UNCHANGED <<traceFrame, ret, made, context, recorder>>

(* RequestTraceCollector.finish called by the request's own thread *)
FinishUsage ==
    /\ ret' = [fn |-> "finish", token_usage |-> TokenUsage(collector.counters)]
    /\ UNCHANGED <<traceFrame, collector, workers, made, context, recorder>>

InitUsage ==
    /\ InitManager
    /\ fs = EmptyDict
    /\ fsResp = NoFsResp
    /\ vec = [a \in AccountIds |-> 0]
    /\ call = NoCall
    /\ ret = NoCall
    /\ collector = [enabled |-> TRUE, counters |-> [k \in TokenKeys |-> 0]]
    /\ made = NoCalls
    /\ workers = [t \in Threads |-> NoUsage]
    /\ context = << >>
    /\ recorder = << >>

NextUsage ==
    \/ \E t \in Threads, input_tokens \in TokenCounts, output_tokens \in TokenCounts :
          AddTokenUsage(t, input_tokens, output_tokens)
    \/ \E t \in Threads : CountTokens(t)
    \/ FinishUsage

SpecUsage == InitUsage /\ [][NextUsage]_vars

(* C39: in every TraceResult produced by finish(), the summary's token     *)
(* usage satisfies total_tokens = input_tokens + output_tokens, also when  *)
(* finish() runs concurrently with add_token_usage calls.                  *)
C39_TotalIsSum ==
    ret.fn = "finish" =>
        ret.token_usage.total_tokens =
            ret.token_usage.input_tokens + ret.token_usage.output_tokens

(* finish() ran between the count() calls of an add_token_usage *)
C39_TornSummary ==
    /\ ret.fn = "finish"
    /\ ret.token_usage.input_tokens > 0
    /\ ret.token_usage.total_tokens = 0

(* A step of the delete-account handler for an account the key manager     *)
(* does not have.                                                          *)
DeletedMissing ==
    resp'.op = "admin_delete_account" /\ resp'.account \notin DOMAIN accounts

(* C40: a delete-account request for an account_id that does not exist     *)
(* fails with NotFound and performs no deletion on VikingFS or the vector  *)
(* store.                                                                  *)
C40_MissingAccountDeletesNothing ==
    [][DeletedMissing =>
          /\ resp'.result = "NotFound"
          /\ fs' = fs
          /\ vec' = vec]_vars

(* The records an earlier deletion of the account left behind are gone     *)
(* after a request that answered NotFound.                                 *)
C40_DeletedBeforeNotFound ==
    /\ resp.op = "admin_delete_account"
    /\ resp.result = "NotFound"
    /\ resp.account \notin DOMAIN accounts
    /\ vec[resp.account] = 0
    /\ fsResp.op = "rm_recursive" /\ fsResp.result = "ok"

====
